---- MODULE Spec2Model ----
(***************************************************************************)
(* The preprocessing driver of wind_forecasting/preprocessing/             *)
(* preprocessing_main.py: the __main__ script that calibrates, filters,    *)
(* imputes, splits and normalizes a wide SCADA table, checkpointing each   *)
(* stage to a parquet file next to PL_SAVE_PATH.                           *)
(*                                                                         *)
(* A table is a record [rows, lineage, dangling]: rows is the sequence of  *)
(* rows (each a function from columns <<feature, turbine>> to integers),   *)
(* lineage is the history of stage artifacts the table was derived from,   *)
(* and dangling says that the lazy frame scans a file that does not exist. *)
(* Angles are integer degrees, wind speeds integer m/s, power integer kW,  *)
(* times integer seconds; engineered features are in thousandths.          *)
(***************************************************************************)
EXTENDS Integers, Sequences, FiniteSets, TLC

VARIABLES
    FILTERS,       \* the FILTERS list of the script, as a set
    RELOAD_DATA,   \* the RELOAD_DATA flag
    schema,        \* the turbines in the order of their columns in the table schema
    exists,        \* the checkpoint / cache files present on disk
    content,       \* the table held by each stage checkpoint file
    cache,         \* the flag array held by each detector cache file
    norm_consts,   \* normalization_consts.csv: the stored (max, min) per feature
    df_query,      \* the script's current table
    bound,         \* local names of the filter block that are bound
    estimate,      \* results of the external estimators and detectors
    df_offsets,    \* the per-turbine offset table of the calibration (northing_bias)
    pc,            \* position of the script
    exc,           \* the exception that ended the run, or "none"
    finished       \* history: the stages finished so far, in order

vars == <<FILTERS, RELOAD_DATA, schema, exists, content, cache, norm_consts, df_query,
          bound, estimate, df_offsets, pc, exc, finished>>

\* ------------------------------------------------------------------------
\* Configuration constants of the script
\* ------------------------------------------------------------------------

AllFilters ==
    {"nacelle_calibration", "unresponsive_sensor", "inoperational", "range_flag",
     "window_range_flag", "bin_filter", "std_range_flag", "split",
     "impute_missing_data", "normalize"}

DefaultFilters ==
    {"unresponsive_sensor", "range_flag", "bin_filter", "std_range_flag",
     "impute_missing_data", "normalize"}

DT == 5

\* data_loader.turbine_ids: the sorted turbine ids found in the schema
turbine_ids == <<"wt1", "wt2">>

Turbines == {turbine_ids[i] : i \in 1..Len(turbine_ids)}

\* the position of a turbine id in data_loader.turbine_ids (0-based, list.index)
TurbineIndex(tid) == (CHOOSE i \in 1..Len(turbine_ids) : turbine_ids[i] = tid) - 1

\* the null value of a cell (outside every feature's domain)
Null == 0 - 999999

RawFeatures ==
    {"turbine_status", "wind_direction", "wind_speed", "power_output", "nacelle_direction"}

TimeCol == <<"time", "">>

GroupCol == <<"continuity_group", "">>

Col(feature, tid) == <<feature, tid>>

\* the columns of the loaded wide table
available_features == {TimeCol} \cup {Col(f, t) : f \in RawFeatures, t \in Turbines}

\* data_inspector.get_features(df, feature_type): the columns of one family
FeatureCols(feature) == {Col(feature, t) : t \in Turbines}

ws_cols == FeatureCols("wind_speed")

wd_cols == FeatureCols("wind_direction")

pwr_cols == FeatureCols("power_output")

\* ------------------------------------------------------------------------
\* Generic helpers
\* ------------------------------------------------------------------------

Range(s) == {s[i] : i \in 1..Len(s)}

Max(a, b) == IF a >= b THEN a ELSE b

Min(a, b) == IF a <= b THEN a ELSE b

SetMax(S) == CHOOSE x \in S : \A y \in S : y <= x

SetMin(S) == CHOOSE x \in S : \A y \in S : x <= y

\* python's float.__mod__ / polars mod for a positive modulus: result in [0, m)
PyMod(x, m) == x % m

\* the checkpoint file of each stage
StageKey(stage) ==
    CASE stage = "calibration" -> "calibrated"
      [] stage = "filter" -> "filtered"
      [] stage = "impute" -> "imputed"
      [] stage = "split" -> "split"
      [] stage = "normalize" -> "normalized"

Stages == <<"calibration", "filter", "impute", "split", "normalize">>

StageKeys == {StageKey(Stages[i]) : i \in 1..Len(Stages)}

CacheKeys ==
    {"frozen_sensors", "out_of_range", "out_of_window", "bin_outliers", "std_dev_outliers"}

\* a table derived from table t by the stage that writes checkpoint key
Derived(t, rows, key) ==
    [rows |-> rows, lineage |-> Append(t.lineage, <<key, "this">>), dangling |-> FALSE]

\* ------------------------------------------------------------------------
\* Tables
\* ------------------------------------------------------------------------

NRows(rows) == Len(rows)

Cells(rows) == (1..Len(rows)) \X Turbines

\* rows with column c of every row replaced by F(row, c) for c in cols
WithColumns(rows, cols, F(_, _)) ==
    [i \in 1..Len(rows) |->
        [c \in DOMAIN rows[i] |-> IF c \in cols THEN F(rows[i], c) ELSE rows[i][c]]]

\* an arithmetic expression on a nullable cell: null stays null
OnValue(v, w) == IF v = Null THEN Null ELSE w

\* ------------------------------------------------------------------------
\* Nacelle calibration (lines 173-293)
\* ------------------------------------------------------------------------

\* line 179: the offset added back to the wind direction signal
offset == 3

\* line 180: (wind_direction + offset).mod(360)
AddOffset(rows) ==
    WithColumns(rows, wd_cols, LAMBDA r, c : OnValue(r[c], PyMod(r[c] + offset, 360)))

\* the subtraction without .mod(360)
SubtractFromTurbine_NoWrap(rows, tid, delta) ==
    WithColumns(rows, {Col("wind_direction", tid), Col("nacelle_direction", tid)},
                LAMBDA r, c : OnValue(r[c], r[c] - delta))

\* the subtraction applied to the wind_direction column only
SubtractFromTurbine_WindOnly(rows, tid, delta) ==
    WithColumns(rows, {Col("wind_direction", tid)},
                LAMBDA r, c : OnValue(r[c], PyMod(r[c] - delta, 360)))

\* lines 223-226 and 270-274: (col - delta).mod(360) on the wind_direction and
\* nacelle_direction column of one turbine
SubtractFromTurbine(rows, tid, delta) ==
    WithColumns(rows, {Col("wind_direction", tid), Col("nacelle_direction", tid)},
                LAMBDA r, c : OnValue(r[c], PyMod(r[c] - delta, 360)))

RECURSIVE RemoveBiases(_, _, _)
\* lines 207-228: the loop over data_loader.turbine_ids, from position k on
RemoveBiases(rows, bias, k) ==
    IF k > Len(turbine_ids) THEN rows
    ELSE RemoveBiases(SubtractFromTurbine(rows, turbine_ids[k], bias[turbine_ids[k]]),
                      bias, k + 1)

RECURSIVE SeqSum(_)
SeqSum(s) == IF s = <<>> THEN 0 ELSE Head(s) + SeqSum(Tail(s))

\* np.mean(dir_offsets), for offsets whose mean is a whole number of degrees
MeanOffset(dir_offsets) == SeqSum(dir_offsets) \div Len(dir_offsets)

RECURSIVE ApplyNorthing(_, _, _)
\* lines 269-274: the Northing offset subtracted from every turbine
ApplyNorthing(rows, north, k) ==
    IF k > Len(turbine_ids) THEN rows
    ELSE ApplyNorthing(SubtractFromTurbine(rows, turbine_ids[k], north), north, k + 1)

\* Angles are whole degrees: every angular result below is the nearest whole
\* degree, trigonometric values are thousandths (SinTable).

\* the nearest whole number to n / d, d > 0, a tie away from zero
RoundDiv(n, d) ==
    IF n >= 0 THEN (2 * n + d) \div (2 * d) ELSE 0 - ((2 * (0 - n) + d) \div (2 * d))

\* n / d, d > 0, to the next whole number away from zero: the sign is exact
AwayDiv(n, d) ==
    IF n >= 0 THEN (n + d - 1) \div d ELSE 0 - (((0 - n) + d - 1) \div d)

\* line 182: pl.col("time").dt.round("10m"), times in seconds
RoundTo10Min(t) == ((t + 300) \div 600) * 600

RECURSIVE SortedTimes(_)
\* line 183: .sort("time") of the distinct rounded times
SortedTimes(S) ==
    IF S = {} THEN <<>>
    ELSE LET first == CHOOSE x \in S : \A y \in S : x <= y
         IN  <<first>> \o SortedTimes(S \ {first})

RECURSIVE SumCells(_, _, _)
SumCells(rows, I, c) ==
    IF I = {} THEN 0
    ELSE LET i == CHOOSE i \in I : TRUE
         IN  rows[i][c] + SumCells(rows, I \ {i}, c)

\* line 183: cs.numeric().mean() of one column over the rows of one 10-minute
\* group: nulls are skipped, null when all are null; angles and status to the
\* nearest whole number, power to the next whole number away from zero
ColumnMean(rows, I, c) ==
    LET J == {i \in I : rows[i][c] # Null}
    IN  IF J = {} THEN Null
        ELSE IF c[1] = "power_output"
        THEN AwayDiv(SumCells(rows, J, c), Cardinality(J))
        ELSE RoundDiv(SumCells(rows, J, c), Cardinality(J))

\* lines 181-183: df_query_10min, the 10-minute means of df_query2
TenMinuteMeans(rows) ==
    LET times == SortedTimes({RoundTo10Min(rows[i][TimeCol]) : i \in 1..Len(rows)})
    IN  [k \in 1..Len(times) |->
            LET I == {i \in 1..Len(rows) : RoundTo10Min(rows[i][TimeCol]) = times[k]}
            IN  [c \in available_features |->
                    IF c = TimeCol THEN times[k] ELSE ColumnMean(rows, I, c)]]

\* 1000 * sin(d degrees) for d = 0..90, to the nearest thousandth
SinTable ==
    << 0, 17, 35, 52, 70, 87, 105, 122, 139, 156, 174, 191, 208,
           225, 242, 259, 276, 292, 309, 326, 342, 358, 375, 391, 407, 423,
           438, 454, 469, 485, 500, 515, 530, 545, 559, 574, 588, 602, 616,
           629, 643, 656, 669, 682, 695, 707, 719, 731, 743, 755, 766, 777,
           788, 799, 809, 819, 829, 839, 848, 857, 866, 875, 883, 891, 899,
           906, 914, 921, 927, 934, 940, 946, 951, 956, 961, 966, 970, 974,
           978, 982, 985, 988, 990, 993, 995, 996, 998, 999, 999, 1000, 1000 >>

\* 1000 * sin(a degrees) for a = 0..359, by the symmetries of the sine
SinDegrees ==
    [a \in 0..359 |->
        IF a <= 90 THEN SinTable[a + 1]
        ELSE IF a <= 180 THEN SinTable[180 - a + 1]
        ELSE IF a <= 270 THEN 0 - SinTable[a - 180 + 1]
        ELSE 0 - SinTable[360 - a + 1]]

\* radians().sin() of an angle in whole degrees, in thousandths
Sin(d) == SinDegrees[d % 360]

\* radians().cos() of an angle in whole degrees, in thousandths
Cos(d) == SinDegrees[(d + 90) % 360]

Abs(x) == IF x < 0 THEN 0 - x ELSE x

RECURSIVE Bisect(_, _, _, _)
\* the whole degree in lo..hi whose direction is nearest to that of (a, b),
\* a, b >= 0: a * cos(d) - b * sin(d) falls from >= 0 at lo to <= 0 at hi
Bisect(a, b, lo, hi) ==
    IF hi - lo <= 1
    THEN IF Abs(a * Cos(lo) - b * Sin(lo)) <= Abs(a * Cos(hi) - b * Sin(hi)) THEN lo ELSE hi
    ELSE LET mid == (lo + hi) \div 2
         IN  IF a * Cos(mid) - b * Sin(mid) >= 0
             THEN Bisect(a, b, mid, hi) ELSE Bisect(a, b, lo, mid)

\* pl.arctan2(y, x).degrees(): a whole degree in (-180, 180]; arctan2(0, 0) = 0
Arctan2Degrees(y, x) ==
    IF y = 0 THEN (IF x >= 0 THEN 0 ELSE 180)
    ELSE IF x = 0 THEN (IF y > 0 THEN 90 ELSE 0 - 90)
    ELSE LET phi == Bisect(Abs(y), Abs(x), 0, 90)
         IN  IF x >= 0 THEN (IF y >= 0 THEN phi ELSE 0 - phi)
             ELSE IF y >= 0 \/ phi = 0 THEN 180 - phi
             ELSE phi - 180

RECURSIVE SortedValues(_, _)
\* the values v[t], t in N, in ascending order
SortedValues(v, N) ==
    IF N = {} THEN <<>>
    ELSE LET t == CHOOSE t \in N : \A u \in N : v[t] <= v[u]
         IN  <<v[t]>> \o SortedValues(v, N \ {t})

\* twice np.nanmedian of the values v[t], t in N, N not empty
TwiceMedian(v, N) ==
    LET sorted == SortedValues(v, N)
        n == Len(sorted)
    IN  IF n % 2 = 1 THEN 2 * sorted[(n + 1) \div 2]
        ELSE sorted[n \div 2] + sorted[n \div 2 + 1]

\* lines 185-189 (wd_median) and 191-195 (yaw_median): the direction of the
\* medians across turbines of the sines and of the cosines of one feature in one
\* row of df_query_10min; null (NaN) when every turbine is null
CircularMedian(row, feature) ==
    LET N == {t \in Turbines : row[Col(feature, t)] # Null}
    IN  IF N = {} THEN Null
        ELSE Arctan2Degrees(TwiceMedian([t \in N |-> Sin(row[Col(feature, t)])], N),
                            TwiceMedian([t \in N |-> Cos(row[Col(feature, t)])], N))

RECURSIVE SumOver(_, _)
SumOver(f, K) ==
    IF K = {} THEN 0
    ELSE LET k == CHOOSE k \in K : TRUE
         IN  f[k] + SumOver(f, K \ {k})

\* lines 215-217 and 243-244: arctan2 of the mean sine and the mean cosine of the
\* differences diff[k], k in K, then .mod(360) and the wrap of values above 180;
\* null when K is empty
WrappedCircularMean(diff, K) ==
    IF K = {} THEN Null
    ELSE LET a == PyMod(Arctan2Degrees(SumOver([k \in K |-> Sin(diff[k])], K),
                                       SumOver([k \in K |-> Cos(diff[k])], K)), 360)
         IN  IF a > 180 THEN a - 360 ELSE a

\* every 10-minute row, whatever the power
Operating_All(tenmin, tid) == 1..Len(tenmin)

\* line 210: .filter(pl.col(f"power_output_{turbine_id}") >= 0)
Operating(tenmin, tid) ==
    {k \in 1..Len(tenmin) : tenmin[k][Col("power_output", tid)] # Null
                              /\ tenmin[k][Col("power_output", tid)] >= 0}

\* the circular mean of the signal itself, the farm median not subtracted
FeatureBias_NoMedian(tenmin, median, feature, tid) ==
    LET K == {k \in Operating(tenmin, tid) : tenmin[k][Col(feature, tid)] # Null}
    IN  WrappedCircularMean([k \in K |-> tenmin[k][Col(feature, tid)]], K)

\* lines 209-217: wd_bias (feature wind_direction) and yaw_bias (feature
\* nacelle_direction) of one turbine, given the farm median of every row
FeatureBias(tenmin, median, feature, tid) ==
    LET K == {k \in Operating(tenmin, tid) : tenmin[k][Col(feature, tid)] # Null}
    IN  WrappedCircularMean([k \in K |-> tenmin[k][Col(feature, tid)] - median[k]], K)

\* line 220: bias = 0.5 * (wd_bias + yaw_bias); null when an operand is None
\* (the addition raises TypeError)
TurbineBias(tenmin, wd_median, yaw_median, tid) ==
    LET wd_bias == FeatureBias(tenmin, wd_median, "wind_direction", tid)
        yaw_bias == FeatureBias(tenmin, yaw_median, "nacelle_direction", tid)
    IN  IF wd_bias = Null \/ yaw_bias = Null THEN Null
        ELSE RoundDiv(wd_bias + yaw_bias, 2)

\* the state of the loop when line 220 raises TypeError: no turbine of order
\* gets an estimate
LoopStopped(tenmin, rows2, order) ==
    [bias |-> [t \in Range(order) |-> Null], tenmin |-> tenmin, rows |-> rows2]

\* Body applied to the value of v, computed once
WithValue(v, Body(_)) == CHOOSE out \in {Body(x) : x \in {v}} : TRUE

RECURSIVE CalibrationLoop_RecomputesMedians(_, _, _, _, _)
\* the loop with the farm medians taken again in every iteration, from the
\* 10-minute table as the earlier iterations left it
CalibrationLoop_RecomputesMedians(tenmin, rows2, wd_median, yaw_median, order) ==
    IF order = <<>> THEN LoopStopped(tenmin, rows2, order)
    ELSE WithValue(
             TurbineBias(tenmin,
                         [k \in 1..Len(tenmin) |-> CircularMedian(tenmin[k], "wind_direction")],
                         [k \in 1..Len(tenmin) |->
                             CircularMedian(tenmin[k], "nacelle_direction")],
                         Head(order)),
             LAMBDA bias :
                 IF bias = Null THEN LoopStopped(tenmin, rows2, order)
                 ELSE WithValue(
                          CalibrationLoop_RecomputesMedians(
                              SubtractFromTurbine(tenmin, Head(order), bias),
                              SubtractFromTurbine(rows2, Head(order), bias),
                              wd_median, yaw_median, Tail(order)),
                          LAMBDA rest :
                              [rest EXCEPT !.bias = (Head(order) :> bias) @@ rest.bias]))

RECURSIVE CalibrationLoop(_, _, _, _, _)
\* lines 206-228: the loop over the turbines of order: every iteration estimates
\* the bias of its turbine from df_query_10min as it stands and from the
\* wd_median and yaw_median columns computed before the loop (lines 185-199),
\* then subtracts it from the two direction columns of that turbine in
\* df_query_10min (tenmin) and in df_query2 (rows2)
CalibrationLoop(tenmin, rows2, wd_median, yaw_median, order) ==
    IF order = <<>> THEN LoopStopped(tenmin, rows2, order)
    ELSE WithValue(
             TurbineBias(tenmin, wd_median, yaw_median, Head(order)),
             LAMBDA bias :
                 IF bias = Null THEN LoopStopped(tenmin, rows2, order)
                 ELSE WithValue(
                          CalibrationLoop(SubtractFromTurbine(tenmin, Head(order), bias),
                                          SubtractFromTurbine(rows2, Head(order), bias),
                                          wd_median, yaw_median, Tail(order)),
                          LAMBDA rest :
                              [rest EXCEPT !.bias = (Head(order) :> bias) @@ rest.bias]))

\* line 183 and lines 185-199: df_query_10min and its wd_median and yaw_median
\* columns, then the loop of lines 206-228 over the turbines of order
CalibrationRun(rows, order) ==
    WithValue(TenMinuteMeans(AddOffset(rows)),
              LAMBDA tenmin :
                  CalibrationLoop(
                      tenmin, AddOffset(rows),
                      [k \in 1..Len(tenmin) |-> CircularMedian(tenmin[k], "wind_direction")],
                      [k \in 1..Len(tenmin) |-> CircularMedian(tenmin[k], "nacelle_direction")],
                      order))

\* lines 207-221: the bias of every turbine, the loop run over
\* data_loader.turbine_ids
BiasEstimates(rows) == CalibrationRun(rows, turbine_ids).bias

\* lines 237-244: the check loop adds the circular mean of wind_direction minus
\* nacelle_direction of every turbine; None (TypeError) when a turbine has no
\* operating row with both values (the bias removal changes no null)
CheckLoopFails(rows) ==
    LET tenmin == TenMinuteMeans(AddOffset(rows))
    IN  \E t \in Turbines :
            \A k \in Operating(tenmin, t) :
                \/ tenmin[k][Col("wind_direction", t)] = Null
                \/ tenmin[k][Col("nacelle_direction", t)] = Null

\* the calibration raises TypeError: at line 220 or at line 238
CalibrationFails(rows, bias) ==
    \/ \E t \in Turbines : bias[t] = Null
    \/ CheckLoopFails(rows)

\* lines 276-282: northing_bias + np.mean(dir_offsets), values above 180 wrapped
FinalNorthingBias(bias, north) ==
    IF bias + north > 180 THEN bias + north - 360 ELSE bias + north

\* df_offsets at line 290: northing_bias of every turbine
OffsetTable(bias, est) ==
    [t \in Turbines |->
        IF est.dir_offsets # <<>>
        THEN FinalNorthingBias(bias[t], MeanOffset(est.dir_offsets))
        ELSE bias[t]]

\* df_query2 at line 290: offset, per-turbine bias removal, Northing correction
CalibratedWith(rows, bias, est) ==
    LET unbiased == RemoveBiases(AddOffset(rows), bias, 1)
    IN  IF est.dir_offsets # <<>>
        THEN ApplyNorthing(unbiased, MeanOffset(est.dir_offsets), 1)
        ELSE unbiased

CalibratedRows(rows, est) == CalibratedWith(rows, BiasEstimates(rows), est)

\* ------------------------------------------------------------------------
\* Anomaly detectors and the conditional nullifier (filter block, lines 316-589)
\* ------------------------------------------------------------------------

\* the index set of a flag array: (row, 0-based column position)
FlagIndex(rows) == (1..Len(rows)) \X (0..(Len(turbine_ids) - 1))

NoFlags(rows) == [x \in FlagIndex(rows) |-> FALSE]

\* line 323: int(np.timedelta64(20, 'm') / np.timedelta64(data_loader.dt, 's'))
unresponsive_thr == (20 * 60) \div DT

\* filters.unresponsive_flag on one feature family: a cell is flagged when it lies
\* in a run of at least thr consecutive identical non-null values of its column;
\* lines 329-330 pick the flag columns by name, in the order of ws_cols / wd_cols
\* (taken to list the turbines as data_loader.turbine_ids does)
unresponsive_flag(rows, feature, thr) ==
    [x \in FlagIndex(rows) |->
        LET c == Col(feature, turbine_ids[x[2] + 1])
            v == rows[x[1]][c]
        IN  /\ v # Null
            /\ \E a \in Max(1, x[1] - thr + 1)..x[1] :
                   /\ a + thr - 1 <= Len(rows)
                   /\ \A k \in a..(a + thr - 1) : rows[k][c] = v]

\* filters.range_flag(ws, lower, upper): the values outside [lower, upper]; ws is
\* df_query.select(cs.starts_with("wind_speed")) (line 390), its columns in the
\* order of the schema
range_flag(rows, lower, upper) ==
    [x \in FlagIndex(rows) |->
        LET v == rows[x[1]][Col("wind_speed", schema[x[2] + 1])]
        IN  v # Null /\ (v < lower \/ v > upper)]

\* the flags of a narrower interval: 0 and 70 flagged
RangeFlags_Narrow(rows) ==
    [x \in FlagIndex(rows) |->
        /\ range_flag(rows, 1, 69)[x]
        /\ rows[x[1]][Col("wind_speed", schema[x[2] + 1])] # Null]

\* lines 391-392: (filters.range_flag(ws, lower=0, upper=70) & ~ws.isna()).values
RangeFlags(rows) ==
    [x \in FlagIndex(rows) |->
        /\ range_flag(rows, 0, 70)[x]
        /\ rows[x[1]][Col("wind_speed", schema[x[2] + 1])] # Null]

\* data_filter._single_generate_window_range_filter through multi_generate_filter:
\* wind speed inside [window_start, window_end] with power outside [value_min, value_max]
window_range_filter(rows, window_start, window_end, value_min, value_max) ==
    [x \in FlagIndex(rows) |->
        LET ws == rows[x[1]][Col("wind_speed", turbine_ids[x[2] + 1])]
            pw == rows[x[1]][Col("power_output", turbine_ids[x[2] + 1])]
        IN  /\ ws # Null /\ pw # Null
            /\ ws >= window_start /\ ws <= window_end
            /\ (pw < value_min \/ pw > value_max)]

\* the mask without the negation: the flagged cells taken as the cells to keep
KeepMask_NotNegated(rows, flags) ==
    [x \in Cells(rows) |-> flags[<<x[1], TurbineIndex(x[2])>>]]

\* lines 335, 399, 432, 480, 525: lambda tid: ~flags[:, turbine_ids.index(tid)],
\* the cells to keep
KeepMask(rows, flags) ==
    [x \in Cells(rows) |-> ~flags[<<x[1], TurbineIndex(x[2])>>]]

\* line 368: status in status_codes, or status null, are the cells to keep
InoperationalMask(rows) ==
    [x \in Cells(rows) |->
        LET st == rows[x[1]][Col("turbine_status", x[2])]
        IN  st \in {1} \/ st = Null]

\* lines 340, 373, 404, 437, 485, 530: threshold = 0.01, as a percentage
threshold == 1

\* the cells of the listed columns that the mask nulls and that hold a value
NewlyNulled(rows, mask, features) ==
    {x \in (1..Len(rows)) \X features : ~mask[<<x[1], x[2][2]>>] /\ rows[x[1]][x[2]] # Null}

\* whether, for some feature family of the listed columns, the newly nulled cells
\* are more than thr percent of the cells of the family
ExceedsThreshold(rows, thr, mask, features) ==
    \E fam \in {c[1] : c \in features} :
        LET famcols == {c \in features : c[1] = fam}
        IN  Cardinality(NewlyNulled(rows, mask, famcols)) * 100
                > thr * Len(rows) * Cardinality(famcols)

\* the rows with the masked cells of the listed columns set to null
Nullified(rows, mask, features) ==
    [i \in 1..Len(rows) |->
        [c \in DOMAIN rows[i] |->
            IF c \in features /\ ~mask[<<i, c[2]>>] THEN Null ELSE rows[i][c]]]

\* data_filter.conditional_filter(df, threshold, mask, features, check_js=False):
\* ok = FALSE stands for raising ThresholdExceeded, with the table unmodified
conditional_filter(rows, thr, mask, features) ==
    IF ExceedsThreshold(rows, thr, mask, features)
    THEN [ok |-> FALSE, rows |-> rows]
    ELSE [ok |-> TRUE, rows |-> Nullified(rows, mask, features)]

\* python's del statement on a sequence of names: the names are unbound from left
\* to right, NameError at the first that is not bound
RECURSIVE Del(_, _)
Del(names, bnd) ==
    IF names = <<>> THEN [ok |-> TRUE, bound |-> bnd]
    ELSE IF Head(names) \notin bnd THEN [ok |-> FALSE, bound |-> bnd]
    ELSE Del(Tail(names), bnd \ {Head(names)})

\* ------------------------------------------------------------------------
\* Gap repair (impute stage, lines 597-608)
\* ------------------------------------------------------------------------

\* line 90: int(60 * 60 * 10 // DT)
FFILL_LIMIT == (60 * 60 * 10) \div DT

impute_missing_features == {"wind_speed", "wind_direction"}

interpolate_missing_features == {"wind_direction", "wind_speed", "nacelle_direction"}

\* cross-sensor imputation: a null cell takes the contemporaneous value of the first
\* other turbine that has one, and stays null when none has
ImputeCell(row, feature, tid) ==
    IF row[Col(feature, tid)] # Null THEN row[Col(feature, tid)]
    ELSE LET donors == {k \in 1..Len(turbine_ids) :
                           /\ turbine_ids[k] # tid
                           /\ row[Col(feature, turbine_ids[k])] # Null}
         IN  IF donors = {} THEN Null
             ELSE row[Col(feature, turbine_ids[SetMin(donors)])]

Imputed(rows) ==
    [i \in 1..Len(rows) |->
        [c \in DOMAIN rows[i] |->
            IF c[1] \in impute_missing_features
            THEN ImputeCell(rows[i], c[1], c[2]) ELSE rows[i][c]]]

\* bounded forward fill of one cell: the last value of the column within limit rows
ForwardFillCell(rows, i, c, limit) ==
    IF rows[i][c] # Null THEN rows[i][c]
    ELSE LET cand == {k \in Max(1, i - limit)..(i - 1) : rows[k][c] # Null}
         IN  IF cand = {} THEN Null ELSE rows[SetMax(cand)][c]

Interpolated(rows, limit) ==
    [i \in 1..Len(rows) |->
        [c \in DOMAIN rows[i] |->
            IF c[1] \in interpolate_missing_features
            THEN ForwardFillCell(rows, i, c, limit) ELSE rows[i][c]]]

\* data_filter._fill_single_missing_dataset followed by the join of line 605:
\* imputation across turbines first, interpolation along time second
FillMissing(rows) == Interpolated(Imputed(rows), FFILL_LIMIT)

\* ------------------------------------------------------------------------
\* Continuity segmentation (split stage, lines 617-714)
\* ------------------------------------------------------------------------

\* line 622: max(1, int(len(data_loader.turbine_ids) * 0.1))
missing_col_thr == Max(1, (Len(turbine_ids) * 10) \div 100)

\* line 623: np.timedelta64(10, "m"), in seconds
missing_duration_thr == 10 * 60

\* line 624: np.timedelta64(20, "m"), in seconds
minimum_not_missing_duration == 20 * 60

\* line 625
missing_data_cols == {"wind_speed", "wind_direction", "nacelle_direction"}

\* line 630: num_missing_{col}, the number of null columns of one family in a row
num_missing(row, col) == Cardinality({t \in Turbines : row[Col(col, t)] = Null})

\* lines 633, 636: pl.sum_horizontal(cs.starts_with("num_missing"))
SumNumMissing(row) ==
    LET RECURSIVE Sum(_)
        Sum(S) == IF S = {} THEN 0
                  ELSE LET c == CHOOSE c \in S : TRUE
                       IN  num_missing(row, c) + Sum(S \ {c})
    IN  Sum(missing_data_cols)

\* line 633: the rows whose mask is sum <= missing_col_thr
NotMissingRows(rows) == {i \in 1..Len(rows) : SumNumMissing(rows[i]) <= missing_col_thr}

\* line 636: the rows whose mask is sum > missing_col_thr
MissingRows(rows) == {i \in 1..Len(rows) : SumNumMissing(rows[i]) > missing_col_thr}

Time(rows, i) == rows[i][TimeCol]

\* add_df_continuity_columns followed by add_df_agg_continuity_columns: the rows
\* selected by the mask, cut where successive selected times do not differ by dt,
\* each run given as (start_time, end_time, duration).  Rows are sorted by time
\* and times are distinct multiples of dt.
ContinuitySpans(rows, sel, dt) ==
    LET starts == {i \in sel : i = 1 \/ (i - 1) \notin sel
                                    \/ Time(rows, i) - Time(rows, i - 1) # dt}
        ends == {i \in sel : i = Len(rows) \/ (i + 1) \notin sel
                                  \/ Time(rows, i + 1) - Time(rows, i) # dt}
    IN  {[start_time |-> Time(rows, s),
          end_time |-> Time(rows, SetMin({e \in ends : e >= s})),
          duration |-> Time(rows, SetMin({e \in ends : e >= s})) - Time(rows, s)]
            : s \in starts}

\* .sort("start_time") of a set of spans with distinct start times
RECURSIVE SortByStart(_)
SortByStart(spans) ==
    IF spans = {} THEN <<>>
    ELSE LET first == CHOOSE p \in spans : \A q \in spans : p.start_time <= q.start_time
         IN  <<first>> \o SortByStart(spans \ {first})

\* merge_adjacent_periods(agg_df, dt): successive spans whose start follows the
\* previous end by dt become one span
RECURSIVE merge_adjacent_periods(_, _)
merge_adjacent_periods(agg, dt) ==
    IF Len(agg) <= 1 THEN agg
    ELSE LET a == agg[1]
             b == agg[2]
         IN  IF b.start_time - a.end_time = dt
             THEN merge_adjacent_periods(
                      <<[start_time |-> a.start_time, end_time |-> b.end_time,
                         duration |-> b.end_time - a.start_time]>>
                      \o SubSeq(agg, 3, Len(agg)), dt)
             ELSE <<a>> \o merge_adjacent_periods(Tail(agg), dt)

\* group_df_by_continuity(df, agg_df, missing_data_cols): the spans of agg_df that
\* hold rows of df, with their start_time, end_time and duration
group_df_by_continuity(rows, agg) ==
    SelectSeq(agg, LAMBDA p : \E i \in 1..Len(rows) :
                                  Time(rows, i) >= p.start_time /\ Time(rows, i) <= p.end_time)

\* the missing spans kept only when shorter than missing_duration_thr
EligibleSpans_Strict(rows) ==
    SortByStart(ContinuitySpans(rows, NotMissingRows(rows), DT)
                \cup {p \in ContinuitySpans(rows, MissingRows(rows), DT) :
                         p.duration < missing_duration_thr})

\* lines 644-646: the not-missing spans and the missing spans of at most
\* missing_duration_thr, sorted by start time
EligibleSpans(rows) ==
    SortByStart(ContinuitySpans(rows, NotMissingRows(rows), DT)
                \cup {p \in ContinuitySpans(rows, MissingRows(rows), DT) :
                         p.duration <= missing_duration_thr})

\* the filter that also drops a span of exactly minimum_not_missing_duration
MinimumDurationFilter_Strict(agg) ==
    SelectSeq(agg, LAMBDA p : p.duration > minimum_not_missing_duration)

\* line 658: .filter(pl.col("duration") >= minimum_not_missing_duration)
MinimumDurationFilter(agg) ==
    SelectSeq(agg, LAMBDA p : p.duration >= minimum_not_missing_duration)

\* the eligible spans merged whether or not one follows the other by dt
SurvivingSpans_MergeAll(rows) ==
    LET agg == EligibleSpans(rows)
    IN  IF agg = <<>> THEN <<>>
        ELSE MinimumDurationFilter(
                 <<[start_time |-> agg[1].start_time, end_time |-> agg[Len(agg)].end_time,
                    duration |-> agg[Len(agg)].end_time - agg[1].start_time]>>)

\* lines 654-658: df_query_not_missing after merge, grouping and duration filter
SurvivingSpans(rows) ==
    MinimumDurationFilter(
        group_df_by_continuity(rows, merge_adjacent_periods(EligibleSpans(rows), DT)))

\* get_continuity_group_index(agg_df): the 0-based position of the span that holds
\* the time of the row, -1 when no span holds it
get_continuity_group_index(agg, t) ==
    LET hits == {k \in 1..Len(agg) : t >= agg[k].start_time /\ t <= agg[k].end_time}
    IN  IF hits = {} THEN 0 - 1 ELSE SetMin(hits) - 1

\* lines 660, 703: select(available_features).with_columns(continuity_group)
WithContinuityGroup(rows, agg) ==
    [i \in 1..Len(rows) |->
        [c \in available_features \cup {GroupCol} |->
            IF c = GroupCol THEN get_continuity_group_index(agg, Time(rows, i))
            ELSE rows[i][c]]]

\* the table without the filter on continuity_group
DropUngrouped_KeepsAll(rows) == rows

\* line 704: .filter(pl.col("continuity_group") != -1)
DropUngrouped(rows) == SelectSeq(rows, LAMBDA r : r[GroupCol] # 0 - 1)

\* line 706: .sort("time") of rows that are already in time order is the identity;
\* lines 703-706 together
SplitRows(rows) == DropUngrouped(WithContinuityGroup(rows, SurvivingSpans(rows)))

\* line 650: no eligible span at all
NoEligibleDurations(rows) == Len(EligibleSpans(rows)) = 0

\* ------------------------------------------------------------------------
\* Feature engineering and normalization (normalize stage, lines 723-759)
\* ------------------------------------------------------------------------

\* line 737
feature_types == <<"nd_cos", "nd_sin", "ws_horz", "ws_vert">>

\* lines 727-732: the engineered feature of one turbine in one row, in thousandths;
\* a null operand gives null
Engineered(row, feature, tid) ==
    LET wd == row[Col("wind_direction", tid)]
        ws == row[Col("wind_speed", tid)]
        nd == row[Col("nacelle_direction", tid)]
    IN  CASE feature = "ws_horz" ->
                 IF ws = Null \/ wd = Null THEN Null ELSE ws * Sin(wd - 180)
          [] feature = "ws_vert" ->
                 IF ws = Null \/ wd = Null THEN Null ELSE ws * Cos(wd - 180)
          [] feature = "nd_cos" -> OnValue(nd, Cos(nd - 180))
          [] feature = "nd_sin" -> OnValue(nd, Sin(nd - 180))

\* line 733: the columns selected after feature engineering
EngineeredCols ==
    {TimeCol, GroupCol} \cup {Col(f, t) : f \in Range(feature_types), t \in Turbines}

\* lines 726-733: df_query after feature engineering and selection
EngineeredRows(rows) ==
    [i \in 1..Len(rows) |->
        [c \in EngineeredCols |->
            IF c \in {TimeCol, GroupCol} THEN rows[i][c]
            ELSE Engineered(rows[i], c[1], c[2])]]

\* the non-null values of all the columns of one engineered feature type
FeatureValues(rows, feature) ==
    {rows[i][Col(feature, t)] : i \in 1..Len(rows), t \in Turbines} \ {Null}

\* pl.all().round(2) of a value in thousandths: the nearest hundredth, a tie
\* rounded away from zero
Round2(v) ==
    IF v = Null THEN Null
    ELSE IF v >= 0 THEN ((v + 5) \div 10) * 10
    ELSE 0 - (((0 - v) + 5) \div 10) * 10

\* lines 739-744: norm_vals, the rounded max and min of every feature type
\* (null when the feature has no value at all)
NormVals(rows) ==
    [f \in Range(feature_types) |->
        LET vals == FeatureValues(rows, f)
        IN  [max |-> IF vals = {} THEN Null ELSE Round2(SetMax(vals)),
             min |-> IF vals = {} THEN Null ELSE Round2(SetMin(vals))]]

\* lines 748-749: 2.0 * ((x - min) / (max - min)) - 1.0, kept as the exact fraction
\* num / den; den = 0 is the float division by zero (inf for num # 0, NaN for
\* num = 0), and a null operand gives null
Scaled(x, lo, hi) ==
    IF x = Null \/ lo = Null \/ hi = Null THEN [num |-> Null, den |-> 1]
    ELSE [num |-> 2 * (x - lo) - (hi - lo), den |-> hi - lo]

\* every column scaled with the unrounded extremes of the column itself
NormalizedRows_PerColumn(rows, consts) ==
    [i \in 1..Len(rows) |->
        [c \in EngineeredCols |->
            IF c \in {TimeCol, GroupCol} THEN rows[i][c]
            ELSE LET vals == {rows[k][c] : k \in 1..Len(rows)} \ {Null}
                 IN  IF vals = {} THEN Scaled(Null, Null, Null)
                     ELSE Scaled(rows[i][c], SetMin(vals), SetMax(vals))]]

\* the final select without the continuity_group column
NormalizedRows_DropsGroup(rows, consts) ==
    [i \in 1..Len(rows) |->
        [c \in EngineeredCols \ {GroupCol} |->
            IF c = TimeCol THEN rows[i][c]
            ELSE Scaled(rows[i][c], consts[c[1]].min, consts[c[1]].max)]]

\* lines 747-750: the normalized table, scaled with the stored constants
NormalizedRows(rows, consts) ==
    [i \in 1..Len(rows) |->
        [c \in EngineeredCols |->
            IF c \in {TimeCol, GroupCol} THEN rows[i][c]
            ELSE Scaled(rows[i][c], consts[c[1]].min, consts[c[1]].max)]]

\* ------------------------------------------------------------------------
\* The script: one action per stage gate and per detector block
\* ------------------------------------------------------------------------

\* the entry added to the history when a stage has finished
Event(stage, how, t) ==
    [stage |-> stage, how |-> how, present |-> StageKey(stage) \in exists,
     input |-> t.lineage]

\* an uncaught exception ends the script
Fail(e) == pc' = "failed" /\ exc' = e

\* pl.scan_parquet of a checkpoint: the table of the file; for a file that does
\* not exist, a lazy frame that raises FileNotFoundError once it is collected
Scan(key) ==
    IF key \in exists THEN content[key]
    ELSE [rows |-> <<>>, lineage |-> <<<<key, "missing">>>>, dangling |-> TRUE]

\* lines 173-293
CalibrationStage ==
    /\ pc = "calibration"
    /\ IF "nacelle_calibration" \in FILTERS \/ RELOAD_DATA \/ "calibrated" \notin exists
       THEN \E bias \in {BiasEstimates(df_query.rows)} :
                IF CalibrationFails(df_query.rows, bias)
                THEN /\ Fail("TypeError")
                     /\ UNCHANGED <<df_query, df_offsets, content, exists, finished>>
                ELSE LET out == Derived(df_query,
                                        CalibratedWith(df_query.rows, bias, estimate),
                                        "calibrated")
                     IN  /\ df_query' = out
                         /\ df_offsets' = OffsetTable(bias, estimate)
                         /\ content' = [content EXCEPT !["calibrated"] = out]
                         /\ exists' = exists \cup {"calibrated"}
                         /\ finished' = Append(finished,
                                               Event("calibration", "computed", df_query))
                         /\ pc' = "filter"
                         /\ exc' = exc
       ELSE /\ df_query' = Scan("calibrated")
            /\ finished' = Append(finished, Event("calibration", "loaded", df_query))
            /\ pc' = "filter"
            /\ UNCHANGED <<df_offsets, content, exists, exc>>
    /\ UNCHANGED <<FILTERS, RELOAD_DATA, schema, cache, norm_consts, bound, estimate>>

\* the detector blocks with the range block moved to the front
FilterBlocks_RangeFirst ==
    <<"range_flag", "unresponsive_sensor", "inoperational", "window_range_flag",
      "bin_filter", "std_range_flag">>

\* the detector blocks of the filter stage, in script order
FilterBlocks ==
    <<"unresponsive_sensor", "inoperational", "range_flag", "window_range_flag",
      "bin_filter", "std_range_flag">>

\* the position reached after the first k detector blocks: the next block whose
\* `if "<name>" in FILTERS` holds, or the write of line 587
NextBlock(k) ==
    LET later == {j \in (k + 1)..Len(FilterBlocks) : FilterBlocks[j] \in FILTERS}
    IN  IF later = {} THEN "write_filtered" ELSE FilterBlocks[SetMin(later)]

\* lines 316 and 588-589: the gate of the filter stage
FilterStage ==
    /\ pc = "filter"
    /\ IF RELOAD_DATA \/ "filtered" \notin exists
       THEN /\ pc' = NextBlock(0)
            /\ UNCHANGED <<df_query, finished>>
       ELSE /\ df_query' = Scan("filtered")
            /\ finished' = Append(finished, Event("filter", "loaded", df_query))
            /\ pc' = "impute"
    /\ UNCHANGED <<FILTERS, RELOAD_DATA, schema, exists, content, cache, norm_consts, bound,
                   estimate, df_offsets, exc>>

\* successive conditional_filter calls, df_query reassigned after each: the rows
\* reached and whether every call returned
RECURSIVE ApplyCalls(_, _)
ApplyCalls(rows, calls) ==
    IF calls = <<>> THEN [ok |-> TRUE, rows |-> rows]
    ELSE LET r == conditional_filter(rows, threshold, Head(calls).mask,
                                     Head(calls).features)
         IN  IF r.ok THEN ApplyCalls(r.rows, Tail(calls))
             ELSE [ok |-> FALSE, rows |-> rows]

\* the end of a detector block: the nullified table is assigned to df_query, then
\* the del statement of the block runs
BlockEnd(res, binds, dels, k) ==
    /\ df_query' = [df_query EXCEPT !.rows = res.rows]
    /\ IF ~res.ok
       THEN /\ bound' = bound \cup binds
            /\ Fail("ThresholdExceeded")
       ELSE LET d == Del(dels, bound \cup binds)
            IN  /\ bound' = d.bound
                /\ IF d.ok THEN pc' = NextBlock(k) /\ exc' = exc
                   ELSE Fail("NameError")

\* the detector run again whether or not its cache file exists
CachedFlags_Recomputes(key, computed) == computed

\* the flag array of a detector: np.load of the cache file when it exists, else
\* the detector's result, which np.save writes to the cache file
CachedFlags(key, computed) == IF key \in exists THEN cache[key] ELSE computed

SaveCache(key, flags) ==
    /\ exists' = exists \cup {key}
    /\ cache' = [cache EXCEPT ![key] = flags]

\* lines 318-362
UnresponsiveBlock ==
    /\ pc = "unresponsive_sensor"
    /\ LET frozen_sensors ==
               CachedFlags("frozen_sensors",
                   [wind_speed |-> unresponsive_flag(df_query.rows, "wind_speed",
                                                     unresponsive_thr),
                    wind_direction |-> unresponsive_flag(df_query.rows, "wind_direction",
                                                         unresponsive_thr)])
           res == ApplyCalls(df_query.rows,
                      <<[mask |-> KeepMask(df_query.rows, frozen_sensors.wind_speed),
                         features |-> ws_cols],
                        [mask |-> KeepMask(df_query.rows, frozen_sensors.wind_direction),
                         features |-> wd_cols]>>)
       IN  /\ SaveCache("frozen_sensors", frozen_sensors)
           /\ BlockEnd(res, {"frozen_sensors", "ws_mask", "wd_mask"},
                       <<"frozen_sensors">>, 1)
    /\ UNCHANGED <<FILTERS, RELOAD_DATA, schema, content, norm_consts, estimate, df_offsets, finished>>

\* lines 364-384
\* the block with the power_output columns among the nullified features
InoperationalBlock_WithPower ==
    /\ pc = "inoperational"
    /\ LET res == ApplyCalls(df_query.rows,
                      <<[mask |-> InoperationalMask(df_query.rows),
                         features |-> ws_cols \cup wd_cols \cup pwr_cols]>>)
       IN  BlockEnd(res, {"mask", "features"}, <<"mask">>, 2)
    /\ UNCHANGED <<FILTERS, RELOAD_DATA, schema, exists, content, cache, norm_consts, estimate,
                   df_offsets, finished>>

InoperationalBlock ==
    /\ pc = "inoperational"
    /\ LET res == ApplyCalls(df_query.rows,
                      <<[mask |-> InoperationalMask(df_query.rows),
                         features |-> ws_cols \cup wd_cols]>>)
       IN  BlockEnd(res, {"mask", "features"}, <<"mask">>, 2)
    /\ UNCHANGED <<FILTERS, RELOAD_DATA, schema, exists, content, cache, norm_consts, estimate, df_offsets,
                   finished>>

\* lines 386-415
RangeFlagBlock ==
    /\ pc = "range_flag"
    /\ LET out_of_range == CachedFlags("out_of_range", RangeFlags(df_query.rows))
           res == ApplyCalls(df_query.rows,
                      <<[mask |-> KeepMask(df_query.rows, out_of_range),
                         features |-> ws_cols]>>)
       IN  /\ SaveCache("out_of_range", out_of_range)
           /\ BlockEnd(res, {"out_of_range", "mask", "features"},
                       <<"out_of_range", "mask">>, 3)
    /\ UNCHANGED <<FILTERS, RELOAD_DATA, schema, content, norm_consts, estimate, df_offsets, finished>>

\* lines 417-461
WindowRangeBlock ==
    /\ pc = "window_range_flag"
    /\ LET out_of_window ==
               CachedFlags("out_of_window",
                           window_range_filter(df_query.rows, 5, 40, 20, 3000))
           res == ApplyCalls(df_query.rows,
                      <<[mask |-> KeepMask(df_query.rows, out_of_window),
                         features |-> ws_cols]>>)
       IN  /\ SaveCache("out_of_window", out_of_window)
           /\ BlockEnd(res, {"out_of_window", "mask", "features"},
                       <<"out_of_window", "mask">>, 4)
    /\ UNCHANGED <<FILTERS, RELOAD_DATA, schema, content, norm_consts, estimate, df_offsets, finished>>

\* lines 464-509; the flags of data_filter._single_generate_bin_filter are the
\* detector's result held in estimate
BinFilterBlock ==
    /\ pc = "bin_filter"
    /\ LET bin_outliers == CachedFlags("bin_outliers", estimate.bin_outliers)
           res == ApplyCalls(df_query.rows,
                      <<[mask |-> KeepMask(df_query.rows, bin_outliers),
                         features |-> ws_cols]>>)
       IN  /\ SaveCache("bin_outliers", bin_outliers)
           /\ BlockEnd(res, {"bin_outliers", "mask", "features"},
                       <<"bin_outliers", "mask">>, 5)
    /\ UNCHANGED <<FILTERS, RELOAD_DATA, schema, content, norm_consts, estimate, df_offsets, finished>>

\* lines 512-545; the flags of data_filter._single_generate_std_range_filter are
\* the detector's result held in estimate, one array per feature
StdRangeBlock ==
    /\ pc = "std_range_flag"
    /\ LET std_dev_outliers == CachedFlags("std_dev_outliers", estimate.std_dev_outliers)
           res == ApplyCalls(df_query.rows,
                      <<[mask |-> KeepMask(df_query.rows, std_dev_outliers.wind_speed),
                         features |-> ws_cols],
                        [mask |-> KeepMask(df_query.rows, std_dev_outliers.wind_direction),
                         features |-> wd_cols]>>)
       IN  /\ SaveCache("std_dev_outliers", std_dev_outliers)
           /\ BlockEnd(res, {"std_dev_outliers", "ws_mask", "wd_mask"},
                       <<"std_dev_outliers", "mask">>, 6)
    /\ UNCHANGED <<FILTERS, RELOAD_DATA, schema, content, norm_consts, estimate, df_offsets, finished>>

\* the write of the filtered checkpoint with the script going on at the split
\* stage, as if the impute stage stood before the filter stage
WriteFiltered_SkipsImpute ==
    /\ pc = "write_filtered"
    /\ LET out == Derived(df_query, df_query.rows, "filtered")
       IN  /\ df_query' = out
           /\ content' = [content EXCEPT !["filtered"] = out]
           /\ exists' = exists \cup {"filtered"}
           /\ finished' = Append(finished, Event("filter", "computed", df_query))
    /\ pc' = "split"
    /\ UNCHANGED <<FILTERS, RELOAD_DATA, schema, cache, norm_consts, bound, estimate, df_offsets, exc>>

\* line 587: df_query.collect().write_parquet(..."_filtered.parquet")
WriteFiltered ==
    /\ pc = "write_filtered"
    /\ LET out == Derived(df_query, df_query.rows, "filtered")
       IN  /\ df_query' = out
           /\ content' = [content EXCEPT !["filtered"] = out]
           /\ exists' = exists \cup {"filtered"}
           /\ finished' = Append(finished, Event("filter", "computed", df_query))
    /\ pc' = "impute"
    /\ UNCHANGED <<FILTERS, RELOAD_DATA, schema, cache, norm_consts, bound, estimate, df_offsets, exc>>

\* lines 597-608
ImputeStage ==
    /\ pc = "impute"
    /\ IF "impute_missing_data" \in FILTERS /\ (RELOAD_DATA \/ "imputed" \notin exists)
       THEN IF df_query.dangling
            THEN /\ Fail("FileNotFoundError")
                 /\ UNCHANGED <<df_query, content, exists, finished>>
            ELSE LET out == Derived(df_query, FillMissing(df_query.rows), "imputed")
                 IN  /\ df_query' = out
                     /\ content' = [content EXCEPT !["imputed"] = out]
                     /\ exists' = exists \cup {"imputed"}
                     /\ finished' = Append(finished, Event("impute", "computed", df_query))
                     /\ pc' = "split"
                     /\ exc' = exc
       ELSE \E eager \in BOOLEAN :
                IF eager /\ "imputed" \notin exists
                THEN /\ Fail("FileNotFoundError")
                     /\ UNCHANGED <<df_query, content, exists, finished>>
                ELSE /\ df_query' = Scan("imputed")
                     /\ finished' = Append(finished, Event("impute", "loaded", df_query))
                     /\ pc' = "split"
                     /\ UNCHANGED <<content, exists, exc>>
    /\ UNCHANGED <<FILTERS, RELOAD_DATA, schema, cache, norm_consts, bound, estimate, df_offsets>>

\* lines 617-714
SplitStage ==
    /\ pc = "split"
    /\ IF "split" \in FILTERS /\ (RELOAD_DATA \/ "split" \notin exists)
       THEN IF df_query.dangling
            THEN /\ Fail("FileNotFoundError")
                 /\ UNCHANGED <<df_query, content, exists, finished>>
            ELSE IF NoEligibleDurations(df_query.rows)
            THEN /\ Fail("Exception")
                 /\ UNCHANGED <<df_query, content, exists, finished>>
            ELSE LET out == Derived(df_query, SplitRows(df_query.rows), "split")
                 IN  /\ df_query' = out
                     /\ content' = [content EXCEPT !["split"] = out]
                     /\ exists' = exists \cup {"split"}
                     /\ finished' = Append(finished, Event("split", "computed", df_query))
                     /\ pc' = "normalize"
                     /\ exc' = exc
       ELSE \E eager \in BOOLEAN :
                IF eager /\ "split" \notin exists
                THEN /\ Fail("FileNotFoundError")
                     /\ UNCHANGED <<df_query, content, exists, finished>>
                ELSE /\ df_query' = Scan("split")
                     /\ finished' = Append(finished, Event("split", "loaded", df_query))
                     /\ pc' = "normalize"
                     /\ UNCHANGED <<content, exists, exc>>
    /\ UNCHANGED <<FILTERS, RELOAD_DATA, schema, cache, norm_consts, bound, estimate, df_offsets>>

\* lines 723-759
NormalizeStage ==
    /\ pc = "normalize"
    /\ IF "normalize" \in FILTERS /\ (RELOAD_DATA \/ "normalized" \notin exists)
       THEN IF df_query.dangling
            THEN /\ Fail("FileNotFoundError")
                 /\ UNCHANGED <<df_query, content, exists, norm_consts, finished>>
            ELSE LET eng == EngineeredRows(df_query.rows)
                     norm_vals == NormVals(eng)
                     out == Derived(df_query, NormalizedRows(eng, norm_vals), "normalized")
                 IN  /\ norm_consts' = norm_vals
                     /\ df_query' = out
                     /\ content' = [content EXCEPT !["normalized"] = out]
                     /\ exists' = exists \cup {"normalization_consts", "normalized"}
                     /\ finished' = Append(finished, Event("normalize", "computed", df_query))
                     /\ pc' = "done"
                     /\ exc' = exc
       ELSE \E eager \in BOOLEAN :
                IF eager /\ "normalized" \notin exists
                THEN /\ Fail("FileNotFoundError")
                     /\ UNCHANGED <<df_query, content, exists, norm_consts, finished>>
                ELSE /\ df_query' = Scan("normalized")
                     /\ finished' = Append(finished, Event("normalize", "loaded", df_query))
                     /\ pc' = "done"
                     /\ UNCHANGED <<content, exists, norm_consts, exc>>
    /\ UNCHANGED <<FILTERS, RELOAD_DATA, schema, cache, bound, estimate, df_offsets>>

FilterBlockNext ==
    \/ UnresponsiveBlock
    \/ InoperationalBlock
    \/ RangeFlagBlock
    \/ WindowRangeBlock
    \/ BinFilterBlock
    \/ StdRangeBlock
    \/ WriteFiltered

Next ==
    \/ CalibrationStage
    \/ FilterStage
    \/ FilterBlockNext
    \/ ImputeStage
    \/ SplitStage
    \/ NormalizeStage

\* ------------------------------------------------------------------------
\* Initial states
\* ------------------------------------------------------------------------

Uniform(v) == [t \in Turbines |-> v]

\* a row of the loaded wide table
MkRow(t, ws, wd, nd, pw, st) ==
    [c \in available_features |->
        CASE c = TimeCol -> t
          [] c[1] = "wind_speed" -> ws[c[2]]
          [] c[1] = "wind_direction" -> wd[c[2]]
          [] c[1] = "nacelle_direction" -> nd[c[2]]
          [] c[1] = "power_output" -> pw[c[2]]
          [] c[1] = "turbine_status" -> st[c[2]]]

\* a row of normal operation at time t
CleanRow(t) == MkRow(t, Uniform(8), Uniform(270), Uniform(268), Uniform(1500), Uniform(1))

\* the table as loaded from PL_SAVE_PATH (lines 116-130)
Loaded(rows) == [rows |-> rows, lineage |-> <<<<"raw", "this">>>>, dangling |-> FALSE]

\* a checkpoint left by an earlier run of the script
Earlier(key, rows) == [rows |-> rows, lineage |-> <<<<key, "earlier">>>>, dangling |-> FALSE]

NoTable == [rows |-> <<>>, lineage |-> <<>>, dangling |-> FALSE]

\* no offset table: the calibration has not been computed in this run
NoOffsets == [t \in Turbines |-> Null]

NoConsts == [f \in Range(feature_types) |-> [max |-> Null, min |-> Null]]

\* the estimators' results when nothing is estimated to be wrong
NoEstimate(rows) ==
    [dir_offsets |-> <<>>,
     bin_outliers |-> NoFlags(rows),
     std_dev_outliers |-> [wind_speed |-> NoFlags(rows), wind_direction |-> NoFlags(rows)]]

\* the rows an earlier run over the same raw rows left in each checkpoint
EarlierRows(key, rows, est) ==
    LET calibrated == CalibratedRows(rows, est)
        imputed == FillMissing(calibrated)
        split == SplitRows(imputed)
        eng == EngineeredRows(split)
    IN  CASE key = "calibrated" -> calibrated
          [] key = "filtered" -> calibrated
          [] key = "imputed" -> imputed
          [] key = "split" -> split
          [] key = "normalized" -> NormalizedRows(eng, NormVals(eng))

\* the state at line 173: configuration, files on disk, the loaded table
Start(filters, reload, files, rows, est, caches, earlier) ==
    /\ FILTERS = filters
    /\ RELOAD_DATA = reload
    /\ schema = turbine_ids
    /\ exists = files
    /\ content = [k \in StageKeys |-> IF k \in files THEN earlier[k] ELSE NoTable]
    /\ cache = caches
    /\ norm_consts = NoConsts
    /\ df_query = Loaded(rows)
    /\ bound = {}
    /\ estimate = est
    /\ df_offsets = NoOffsets
    /\ pc = "calibration"
    /\ exc = "none"
    /\ finished = <<>>

\* the flag arrays of cache files that flag nothing
NoCaches(rows) ==
    [k \in CacheKeys |->
        IF k \in {"frozen_sensors", "std_dev_outliers"}
        THEN [wind_speed |-> NoFlags(rows), wind_direction |-> NoFlags(rows)]
        ELSE NoFlags(rows)]

\* number of rows of the tables the whole-script specification runs on
DriverRows == 2

\* the table of the whole-script specification: normal operation, but for one
\* wind speed out of range in the first row
DriverTable ==
    [i \in 1..DriverRows |->
        IF i = 1
        THEN MkRow(0, [Uniform(8) EXCEPT ![turbine_ids[1]] = 80], Uniform(270),
                   Uniform(268), Uniform(1500), Uniform(1))
        ELSE CleanRow((i - 1) * DT)]

\* the results of the external estimators in the whole-script specification
DriverEstimate ==
    [NoEstimate(DriverTable) EXCEPT !.dir_offsets = <<4, 6>>]

\* the checkpoints an earlier run over the same table left behind
DriverCheckpoints ==
    [k \in StageKeys |-> Earlier(k, EarlierRows(k, DriverTable, DriverEstimate))]

Init ==
    \E filters \in SUBSET AllFilters, reload \in BOOLEAN, files \in SUBSET StageKeys :
        Start(filters, reload, files, DriverTable, DriverEstimate, NoCaches(DriverTable),
              DriverCheckpoints)

Spec == Init /\ [][Next]_vars

\* ------------------------------------------------------------------------
\* The filter block on tables large enough for the nullification threshold
\* ------------------------------------------------------------------------

\* number of rows of the tables of the filter-block specification
FilterRows == 50

\* the cells that may hold an out-of-range wind speed
BadCells == {<<1, turbine_ids[1]>>, <<2, turbine_ids[1]>>, <<1, turbine_ids[2]>>}

\* the calibrated table the filter block starts from: normal operation, with a
\* wind speed out of range in the cells of bad (80, and -1 in row 2), status 0 in
\* the cells of inop, a wind speed that is already null in row 3, wind speeds 0
\* and 70 in rows 10 and 11 and no power at normal wind speed in row 8
FilterTable(bad, inop) ==
    [i \in 1..FilterRows |->
        MkRow((i - 1) * DT,
              [t \in Turbines |-> IF <<i, t>> \in bad THEN (IF i = 2 THEN 0 - 1 ELSE 80)
                                  ELSE IF i = 3 /\ t = turbine_ids[2] THEN Null
                                  ELSE IF i = 10 /\ t = turbine_ids[1] THEN 0
                                  ELSE IF i = 11 /\ t = turbine_ids[1] THEN 70
                                  ELSE 8 + (i % 2)],
              [t \in Turbines |-> 270 - (i % 3)],
              Uniform(268),
              [t \in Turbines |-> IF i = 8 /\ t = turbine_ids[1] THEN 0 ELSE 1500],
              [t \in Turbines |-> IF <<i, t>> \in inop THEN 0 ELSE 1])]

\* a flag array that flags the given index pairs
FlagsOf(rows, flagged) == [x \in FlagIndex(rows) |-> x \in flagged]

\* the state at line 316, after the calibration stage has written its checkpoint
InitFilter ==
    \E filters \in SUBSET Range(FilterBlocks),
       bad \in {B \in SUBSET BadCells : <<2, turbine_ids[1]>> \in B => <<1, turbine_ids[1]>> \in B},
       inop \in {{}, {<<1, turbine_ids[2]>>}},
       bin \in {{}, {<<5, 0>>}, {<<5, 0>>, <<6, 0>>, <<5, 1>>}},
       std \in {{}, {<<7, 1>>}} :
        \E rows \in {FilterTable(bad, inop)} :
        \E calibrated \in {Derived(Loaded(rows), rows, "calibrated")} :
            /\ FILTERS = filters
            /\ RELOAD_DATA = FALSE
            /\ schema = turbine_ids
            /\ exists = {"calibrated"}
            /\ content = [k \in StageKeys |-> IF k = "calibrated" THEN calibrated ELSE NoTable]
            /\ cache = NoCaches(rows)
            /\ norm_consts = NoConsts
            /\ df_query = calibrated
            /\ bound = {}
            /\ estimate = [NoEstimate(rows) EXCEPT
                              !.bin_outliers = FlagsOf(rows, bin),
                              !.std_dev_outliers.wind_direction = FlagsOf(rows, std)]
            /\ df_offsets = NoOffsets
            /\ pc = "filter"
            /\ exc = "none"
            /\ finished = <<[stage |-> "calibration", how |-> "computed",
                             present |-> FALSE, input |-> <<<<"raw", "this">>>>]>>

NextFilter == FilterStage \/ FilterBlockNext

SpecFilter == InitFilter /\ [][NextFilter]_vars

\* ------------------------------------------------------------------------
\* The filter block with flag-cache files of an earlier run on disk
\* ------------------------------------------------------------------------

\* the row whose first turbine the cache file of a detector flags: a cell that no
\* detector flags on the table of this run
StaleRow(key) ==
    CASE key = "frozen_sensors" -> 20
      [] key = "out_of_range" -> 21
      [] key = "out_of_window" -> 22
      [] key = "bin_outliers" -> 23
      [] key = "std_dev_outliers" -> 24

\* the calibrated table of this run: wind speed 80 in row 1
CacheTable == FilterTable({<<1, turbine_ids[1]>>}, {})

\* the flag arrays an earlier run, on other data or with other parameters, saved
StaleCaches ==
    [k \in CacheKeys |->
        IF k \in {"frozen_sensors", "std_dev_outliers"}
        THEN [wind_speed |-> FlagsOf(CacheTable, {<<StaleRow(k), 0>>}),
              wind_direction |-> NoFlags(CacheTable)]
        ELSE FlagsOf(CacheTable, {<<StaleRow(k), 0>>})]

\* the calibrated checkpoint, the cache files that flag nothing and the detector
\* results of this run
CacheCalibrated == Derived(Loaded(CacheTable), CacheTable, "calibrated")

CacheEstimate == [NoEstimate(CacheTable) EXCEPT !.bin_outliers = FlagsOf(CacheTable, {<<5, 0>>})]

\* the state at line 316 with any of the flag-cache files and the filtered
\* checkpoint on disk
InitCache ==
    \E filters \in SUBSET Range(FilterBlocks), reload \in BOOLEAN,
       cached \in SUBSET CacheKeys, filtered \in BOOLEAN :
        /\ FILTERS = filters
        /\ RELOAD_DATA = reload
        /\ schema = turbine_ids
        /\ exists = {"calibrated"} \cup cached \cup (IF filtered THEN {"filtered"} ELSE {})
        /\ content = [k \in StageKeys |->
                         IF k = "calibrated" THEN CacheCalibrated
                         ELSE IF k = "filtered" /\ filtered
                         THEN Earlier("filtered", CacheTable)
                         ELSE NoTable]
        /\ cache = [k \in CacheKeys |->
                       IF k \in cached THEN StaleCaches[k] ELSE NoCaches(<<>>)[k]]
        /\ norm_consts = NoConsts
        /\ df_query = CacheCalibrated
        /\ bound = {}
        /\ estimate = CacheEstimate
        /\ df_offsets = NoOffsets
        /\ pc = "filter"
        /\ exc = "none"
        /\ finished = <<[stage |-> "calibration", how |-> "computed",
                         present |-> FALSE, input |-> <<<<"raw", "this">>>>]>>

NextCache == FilterStage \/ FilterBlockNext

SpecCache == InitCache /\ [][NextCache]_vars

\* ------------------------------------------------------------------------
\* The filter block on tables whose columns are in any order
\* ------------------------------------------------------------------------

\* the orders in which the turbines can be listed: the order of the per-turbine
\* columns in the schema of the table, the order of a loop over the turbines
TurbineOrders ==
    {order \in [1..Len(turbine_ids) -> Turbines] :
        \A i, j \in 1..Len(turbine_ids) : order[i] = order[j] => i = j}

\* the state at line 316 after the calibrated checkpoint was loaded, its columns
\* in any order: line 122 sorts data_loader.turbine_ids, the schema stays as the
\* file has it
InitSchema ==
    \E filters \in SUBSET Range(FilterBlocks), order \in TurbineOrders,
       bad \in {{}, {<<1, turbine_ids[1]>>}, {<<1, turbine_ids[2]>>}},
       bin \in {{}, {<<5, 0>>}} :
        \E rows \in {FilterTable(bad, {})} :
        \E calibrated \in {Derived(Loaded(rows), rows, "calibrated")} :
            /\ FILTERS = filters
            /\ RELOAD_DATA = FALSE
            /\ schema = order
            /\ exists = {"calibrated"}
            /\ content = [k \in StageKeys |-> IF k = "calibrated" THEN calibrated ELSE NoTable]
            /\ cache = NoCaches(rows)
            /\ norm_consts = NoConsts
            /\ df_query = calibrated
            /\ bound = {}
            /\ estimate = [NoEstimate(rows) EXCEPT !.bin_outliers = FlagsOf(rows, bin)]
            /\ df_offsets = NoOffsets
            /\ pc = "filter"
            /\ exc = "none"
            /\ finished = <<[stage |-> "calibration", how |-> "computed",
                             present |-> FALSE, input |-> <<<<"raw", "this">>>>]>>

NextSchema == FilterStage \/ FilterBlockNext

SpecSchema == InitSchema /\ [][NextSchema]_vars

\* ------------------------------------------------------------------------
\* The split stage on tables long enough for the duration thresholds
\* ------------------------------------------------------------------------

\* most stretches an input table of the split-stage specification is made of
MaxSegments == 3

\* rows of a stretch that lasts exactly minimum_not_missing_duration
EnoughRows == minimum_not_missing_duration \div DT + 1

\* rows of a stretch that lasts exactly missing_duration_thr
ShortGapRows == missing_duration_thr \div DT + 1

\* the stretches: rows of normal operation, rows with one null column (at most
\* missing_col_thr), rows with one null column in each of two families, rows with
\* the wind speed of every turbine null (more than missing_col_thr), and a hole of
\* absent timestamps
Segments ==
    {[kind |-> "ok", len |-> EnoughRows],
     [kind |-> "spread", len |-> ShortGapRows + 1],
     [kind |-> "ok", len |-> EnoughRows - 1],
     [kind |-> "ok", len |-> ShortGapRows - 1],
     [kind |-> "partial", len |-> ShortGapRows],
     [kind |-> "missing", len |-> ShortGapRows],
     [kind |-> "missing", len |-> ShortGapRows + 1],
     [kind |-> "hole", len |-> 3]}

SegmentRow(kind, t) ==
    CASE kind = "ok" -> CleanRow(t)
      [] kind = "partial" ->
             MkRow(t, Uniform(8), Uniform(270),
                   [Uniform(268) EXCEPT ![turbine_ids[1]] = Null], Uniform(1500), Uniform(1))
      [] kind = "spread" ->
             MkRow(t, [Uniform(8) EXCEPT ![turbine_ids[1]] = Null], Uniform(270),
                   [Uniform(268) EXCEPT ![turbine_ids[2]] = Null], Uniform(1500), Uniform(1))
      [] kind = "missing" ->
             MkRow(t, Uniform(Null), Uniform(270), Uniform(268), Uniform(1500), Uniform(1))

\* the rows of the stretches in order, the first at time t0, one row every DT
RECURSIVE SegmentRows(_, _)
SegmentRows(segs, t0) ==
    IF segs = <<>> THEN <<>>
    ELSE LET g == Head(segs)
         IN  (IF g.kind = "hole" THEN <<>>
              ELSE [i \in 1..g.len |-> SegmentRow(g.kind, t0 + (i - 1) * DT)])
             \o SegmentRows(Tail(segs), t0 + g.len * DT)

SegmentLists ==
    UNION {[1..n -> Segments] : n \in 1..MaxSegments}

\* the state at line 617 when the imputed checkpoint was scanned at line 608
InitSplit ==
    \E segs \in SegmentLists :
        LET imputed == Earlier("imputed", SegmentRows(segs, 0))
        IN  /\ FILTERS = {"split"}
            /\ RELOAD_DATA = FALSE
            /\ schema = turbine_ids
            /\ exists = {"calibrated", "filtered", "imputed"}
            /\ content = [k \in StageKeys |-> IF k = "imputed" THEN imputed ELSE NoTable]
            /\ cache = NoCaches(<<>>)
            /\ norm_consts = NoConsts
            /\ df_query = imputed
            /\ bound = {}
            /\ estimate = NoEstimate(<<>>)
            /\ df_offsets = NoOffsets
            /\ pc = "split"
            /\ exc = "none"
            /\ finished = <<>>

NextSplit == SplitStage

SpecSplit == InitSplit /\ [][NextSplit]_vars

\* ------------------------------------------------------------------------
\* The normalize stage on small split tables
\* ------------------------------------------------------------------------

\* number of rows of the tables of the normalize-stage specification
NormRows == 2

\* the readings of one turbine in one row: wind speed, wind direction, nacelle
\* direction
Readings ==
    {[ws |-> 2, wd |-> 240, nd |-> 180],
     [ws |-> 5, wd |-> 200, nd |-> 180],
     [ws |-> 8, wd |-> 270, nd |-> 268],
     [ws |-> Null, wd |-> 270, nd |-> 90]}

\* a row of the split table: the loaded columns and the continuity group
SplitRow(t, r) ==
    [c \in available_features \cup {GroupCol} |->
        IF c = GroupCol THEN 0
        ELSE MkRow(t, [k \in Turbines |-> r[k].ws], [k \in Turbines |-> r[k].wd],
                   [k \in Turbines |-> r[k].nd], Uniform(1500), Uniform(1))[c]]

\* the state at line 723 when the split checkpoint was scanned at line 714
InitNorm ==
    \E readings \in [1..NormRows -> [Turbines -> Readings]] :
        LET split == Earlier("split", [i \in 1..NormRows |-> SplitRow((i - 1) * DT, readings[i])])
        IN  /\ FILTERS = {"normalize"}
            /\ RELOAD_DATA = FALSE
            /\ schema = turbine_ids
            /\ exists = {"calibrated", "filtered", "imputed", "split"}
            /\ content = [k \in StageKeys |-> IF k = "split" THEN split ELSE NoTable]
            /\ cache = NoCaches(<<>>)
            /\ norm_consts = NoConsts
            /\ df_query = split
            /\ bound = {}
            /\ estimate = NoEstimate(<<>>)
            /\ df_offsets = NoOffsets
            /\ pc = "normalize"
            /\ exc = "none"
            /\ finished = <<>>

NextNorm == NormalizeStage

SpecNorm == InitNorm /\ [][NextNorm]_vars

\* ------------------------------------------------------------------------
\* The calibration stage on tables with several 10-minute groups
\* ------------------------------------------------------------------------

\* number of rows of the tables of the calibration specification
CalibRows == 3

\* seconds between the rows of those tables, the sampling step of line 85: the
\* first row is one 10-minute group, the rows that follow share groups two by two
CalibStep == DT * 60

\* the readings of one turbine in one row: wind direction (some degrees below the
\* nacelle direction, as line 178 expects), nacelle direction, power; the third is
\* a turbine that is down: a nacelle direction logged as a negative angle and a
\* negative power
CalibReadings ==
    {[wd |-> 7, nd |-> 10, pw |-> 1500],
     [wd |-> 147, nd |-> 150, pw |-> 1500],
     [wd |-> 357, nd |-> 0 - 2, pw |-> 0 - 5]}

\* the Northing offsets of the external estimator compute_offsets
DirOffsets == {<<>>, <<4, 6>>, <<0 - 150, 0 - 130>>}

\* a table of those readings; the turbine that is down reports no power at all
\* in the first row
CalibTable(readings) ==
    [i \in 1..CalibRows |->
        MkRow((i - 1) * CalibStep, Uniform(8), [t \in Turbines |-> readings[i][t].wd],
              [t \in Turbines |-> readings[i][t].nd],
              [t \in Turbines |->
                  IF readings[i][t].pw < 0 /\ i = 1 THEN Null ELSE readings[i][t].pw],
              Uniform(1))]

\* the state at line 173 of a first run: no checkpoint on disk
InitCalib ==
    \E readings \in [1..CalibRows -> [Turbines -> CalibReadings]],
       dir_offsets \in DirOffsets :
        Start({"nacelle_calibration"}, FALSE, {}, CalibTable(readings),
              [NoEstimate(<<>>) EXCEPT !.dir_offsets = dir_offsets], NoCaches(<<>>),
              [k \in StageKeys |-> NoTable])

NextCalib == CalibrationStage

SpecCalib == InitCalib /\ [][NextCalib]_vars

\* ------------------------------------------------------------------------
\* Properties of the stage driver
\* ------------------------------------------------------------------------

\* the number of stages that have finished when the script is at position p
StagesBefore(p) ==
    CASE p = "calibration" -> 0
      [] p = "filter" \/ p \in Range(FilterBlocks) \/ p = "write_filtered" -> 1
      [] p = "impute" -> 2
      [] p = "split" -> 3
      [] p = "normalize" -> 4
      [] p = "done" -> 5
      [] p = "failed" -> Len(finished)

\* C1: the stages run in the fixed order calibration, filter, impute, split,
\* normalize: the stages finished so far are always an initial part of that
\* sequence, and the script works on a stage only when exactly its predecessors
\* have finished, whatever FILTERS and the checkpoint files are.
C1_StageOrder ==
    /\ Len(finished) <= Len(Stages)
    /\ \A i \in 1..Len(finished) : finished[i].stage = Stages[i]
    /\ Len(finished) = StagesBefore(pc)

\* C1 witness: a complete run in which some stages were loaded and some computed
C1_Witness ==
    /\ pc = "done"
    /\ Len(finished) = 5
    /\ finished[2].how = "loaded"
    /\ finished[3].how = "computed"
    /\ finished[5].how = "computed"

ComputedAt(stage) ==
    \E i \in 1..Len(finished) : finished[i].stage = stage /\ finished[i].how = "computed"

\* C2: data flows strictly downstream: whenever the impute stage is computed in a
\* run, the table the normalize stage of that run consumes is derived from that
\* imputation result, not from an artifact of an earlier run.
C2_DataFlowsDownstream ==
    \A j \in 1..Len(finished) :
        (finished[j].stage = "normalize" /\ finished[j].how = "computed"
            /\ ComputedAt("impute"))
        => <<"imputed", "this">> \in Range(finished[j].input)

\* C3: read the snapshot if present, else compute and write: a stage whose
\* checkpoint is absent is computed and its checkpoint written, a stage whose
\* checkpoint is present is read unless a reload is forced (by RELOAD_DATA, or for
\* the calibration stage by selecting it), and no stage scans a checkpoint that
\* does not exist.
C3_LoadOrCompute ==
    /\ \A i \in 1..Len(finished) :
           /\ ~finished[i].present =>
                  finished[i].how = "computed" /\ StageKey(finished[i].stage) \in exists
           /\ (/\ finished[i].present
               /\ ~RELOAD_DATA
               /\ ~(finished[i].stage = "calibration" /\ "nacelle_calibration" \in FILTERS))
              => finished[i].how = "loaded"
    /\ ~df_query.dangling
    /\ exc # "FileNotFoundError"

\* ------------------------------------------------------------------------
\* Properties of the filter block
\* ------------------------------------------------------------------------

\* the cells a detector block flags, per nullification call and in call order, read
\* from the flag arrays the block leaves in its cache file
BlockFlags(p, rows) ==
    CASE p = "unresponsive_sensor" ->
             <<[flags |-> cache'["frozen_sensors"].wind_speed, features |-> ws_cols],
               [flags |-> cache'["frozen_sensors"].wind_direction, features |-> wd_cols]>>
      [] p = "inoperational" ->
             <<[flags |-> [x \in FlagIndex(rows) |->
                              rows[x[1]][Col("turbine_status", turbine_ids[x[2] + 1])]
                                  \notin {1, Null}],
                features |-> ws_cols \cup wd_cols]>>
      [] p = "range_flag" ->
             <<[flags |-> cache'["out_of_range"], features |-> ws_cols]>>
      [] p = "window_range_flag" ->
             <<[flags |-> cache'["out_of_window"], features |-> ws_cols]>>
      [] p = "bin_filter" ->
             <<[flags |-> cache'["bin_outliers"], features |-> ws_cols]>>
      [] p = "std_range_flag" ->
             <<[flags |-> cache'["std_dev_outliers"].wind_speed, features |-> ws_cols],
               [flags |-> cache'["std_dev_outliers"].wind_direction, features |-> wd_cols]>>

\* whether column c of row i is flagged: the flag of the turbine of the column
Flagged(flags, i, c) ==
    \E k \in 1..Len(turbine_ids) : turbine_ids[k] = c[2] /\ flags[<<i, k - 1>>]

\* whether the flags would null more than 1 percent of the cells of a column family
\* among the listed columns
NullsTooMany(rows, flags, features) ==
    \E fam \in {c[1] : c \in features} :
        LET cells == {x \in (1..Len(rows)) \X {c \in features : c[1] = fam} : TRUE}
            nulled == {x \in cells : Flagged(flags, x[1], x[2]) /\ rows[x[1]][x[2]] # Null}
        IN  100 * Cardinality(nulled) > Cardinality(cells)

\* the table in which exactly the flagged cells of the listed columns became null
FlaggedCellsNull(rows, flags, features) ==
    [i \in 1..Len(rows) |->
        [c \in DOMAIN rows[i] |->
            IF c \in features /\ Flagged(flags, i, c) THEN Null ELSE rows[i][c]]]

\* what the safety rail requires of successive nullification calls: the table
\* reached and whether a call had to fail
RECURSIVE SafetyRail(_, _)
SafetyRail(rows, calls) ==
    IF calls = <<>> THEN [ok |-> TRUE, rows |-> rows]
    ELSE IF NullsTooMany(rows, Head(calls).flags, Head(calls).features)
    THEN [ok |-> FALSE, rows |-> rows]
    ELSE SafetyRail(FlaggedCellsNull(rows, Head(calls).flags, Head(calls).features),
                    Tail(calls))

C13_UnresponsiveFirst ==
    "unresponsive_sensor" \in FILTERS =>
        /\ pc = "unresponsive_sensor" =>
               (df_query.rows = content["calibrated"].rows /\ bound = {})
        /\ pc \in Range(FilterBlocks) \ {"unresponsive_sensor"} =>
               {"ws_mask", "wd_mask"} \subseteq bound

\* C13 witness: the range block is about to run after the unresponsive-sensor
\* block and then the inoperational block, which nullified cells
C13_Witness ==
    /\ pc = "range_flag"
    /\ {"unresponsive_sensor", "inoperational"} \subseteq FILTERS
    /\ {"ws_mask", "wd_mask"} \subseteq bound
    /\ "frozen_sensors" \in exists
    /\ df_query.rows # content["calibrated"].rows

\* C17: when the range detector runs, it flags a wind speed cell exactly when the
\* cell holds a value below 0 or above 70: 0 and 70 are not flagged, and a null
\* cell, one nullified by an earlier block included, is not flagged.
C17_RangeDetector ==
    [][(pc = "range_flag" /\ "out_of_range" \notin exists) =>
          \A i \in 1..Len(df_query.rows), k \in 1..Len(schema) :
              LET v == df_query.rows[i][Col("wind_speed", schema[k])]
              IN  cache'["out_of_range"][<<i, k - 1>>]
                      <=> (v # Null /\ ~(0 <= v /\ v <= 70))
      ]_vars

\* C17 witness: the range detector has run after the inoperational block: the wind
\* speeds 80 and -1 were flagged, 0 and 70 and the null of row 3 were not, and
\* neither was the wind speed 80 that the inoperational block had nullified
C17_Witness ==
    /\ "out_of_range" \in exists
    /\ "inoperational" \in FILTERS
    /\ pc # "range_flag"
    /\ cache["out_of_range"][<<1, 0>>]
    /\ cache["out_of_range"][<<2, 0>>]
    /\ content["calibrated"].rows[2][Col("wind_speed", turbine_ids[1])] = 0 - 1
    /\ ~cache["out_of_range"][<<10, 0>>]
    /\ df_query.rows[10][Col("wind_speed", turbine_ids[1])] = 0
    /\ ~cache["out_of_range"][<<11, 0>>]
    /\ df_query.rows[11][Col("wind_speed", turbine_ids[1])] = 70
    /\ ~cache["out_of_range"][<<3, 1>>]
    /\ content["calibrated"].rows[1][Col("wind_speed", turbine_ids[2])] = 80
    /\ content["calibrated"].rows[1][Col("turbine_status", turbine_ids[2])] = 0
    /\ ~cache["out_of_range"][<<1, 1>>]

\* the cache file of a detector block
CacheKeyOf(p) ==
    CASE p = "unresponsive_sensor" -> "frozen_sensors"
      [] p = "range_flag" -> "out_of_range"
      [] p = "window_range_flag" -> "out_of_window"
      [] p = "bin_filter" -> "bin_outliers"
      [] p = "std_range_flag" -> "std_dev_outliers"

\* C18: a detector block whose flag-cache file exists leaves the file as it is and
\* nullifies by the flags of the file, whatever the table holds and whatever
\* RELOAD_DATA is.
C18_CachedFlagsApplied ==
    [][(pc \in Range(FilterBlocks) \ {"inoperational"} /\ CacheKeyOf(pc) \in exists) =>
          /\ cache' = cache
          /\ df_query'.rows = SafetyRail(df_query.rows, BlockFlags(pc, df_query.rows)).rows
      ]_vars

\* C18 witness: with RELOAD_DATA set, the range block has nullified the cell its
\* cache file flags and has left the wind speed 80 of row 1 in the table
C18_Witness ==
    /\ RELOAD_DATA
    /\ FILTERS = {"range_flag"}
    /\ pc = "write_filtered"
    /\ cache["out_of_range"] = StaleCaches["out_of_range"]
    /\ df_query.rows[StaleRow("out_of_range")][Col("wind_speed", turbine_ids[1])] = Null
    /\ df_query.rows[1][Col("wind_speed", turbine_ids[1])] = 80

\* C19: after a ThresholdExceeded failure in the filter stage the script has ended
\* and nothing the filter stage produced in this run is on disk: neither the
\* filtered checkpoint nor a flag-cache file; no later stage has run.
C19_NoPartialWrite ==
    exc = "ThresholdExceeded" =>
        /\ pc = "failed"
        /\ exists = {"calibrated"}
        /\ \A j \in 1..Len(finished) : finished[j].stage = "calibration"

\* C23: for every selection of FILTERS, a filter block whose detectors and
\* nullification calls succeed runs to completion and writes the filtered
\* checkpoint: every name a del statement removes is bound where it is deleted
\* (no NameError), so the block ends only by the write or by the exception of a
\* nullification call.
C23_DeletedNamesBound ==
    /\ exc \in {"none", "ThresholdExceeded"}
    /\ pc = "impute" => "filtered" \in exists

\* the verdict of the range detector on the wind speed of a turbine in a row
OutOfRange(rows, i, tid) ==
    LET v == rows[i][Col("wind_speed", tid)]
    IN  v # Null /\ (v < 0 \/ v > 70)

\* C24: flag-to-column alignment, for every order of the columns of the table:
\* position turbine_ids.index(tid) of a flag array holds the flags the detector
\* computed from the data of turbine tid, so a block nullifies the cell of a
\* turbine exactly when the detector flagged that turbine's own value (range
\* detector: the wind speed of tid in that row is outside [0, 70]).
C24_FlagAlignment ==
    [][(pc = "range_flag" /\ exc' = "none")
          => \A i \in 1..Len(df_query.rows), t \in Turbines :
                 /\ cache'["out_of_range"][<<i, TurbineIndex(t)>>]
                        = OutOfRange(df_query.rows, i, t)
                 /\ (df_query'.rows[i][Col("wind_speed", t)] = Null)
                        = (df_query.rows[i][Col("wind_speed", t)] = Null
                               \/ OutOfRange(df_query.rows, i, t))]_vars

\* the cells of a table that differ from the cells of another
ChangedCells(before, after) ==
    {x \in (1..Len(before)) \X available_features : after[x[1]][x[2]] # before[x[1]][x[2]]}

\* C27: frame of the filter block: a detector block changes a cell only by
\* nullifying it, and only in wind_speed and wind_direction columns (the range,
\* window and bin blocks only in wind_speed columns); the filtered table has the
\* rows of the calibrated table, with the same time, power_output,
\* nacelle_direction and turbine_status in every row.
C27_FilterFrame ==
    [][/\ (pc \in Range(FilterBlocks))
              => /\ Len(df_query'.rows) = Len(df_query.rows)
                 /\ \A x \in ChangedCells(df_query.rows, df_query'.rows) :
                        /\ df_query'.rows[x[1]][x[2]] = Null
                        /\ x[2][1] \in {"wind_speed", "wind_direction"}
                        /\ (pc \in {"range_flag", "window_range_flag", "bin_filter"})
                               => x[2][1] = "wind_speed"
       /\ (pc = "write_filtered")
              => /\ Len(content'["filtered"].rows) = Len(content["calibrated"].rows)
                 /\ \A x \in ChangedCells(content["calibrated"].rows,
                                          content'["filtered"].rows) :
                        x[2][1] \in {"wind_speed", "wind_direction"}
      ]_vars

\* C27 witness: the filtered checkpoint was written after the blocks had
\* nullified a wind_speed cell and a wind_direction cell of the calibrated table
C27_Witness ==
    /\ "filtered" \in exists
    /\ pc = "impute"
    /\ \E x, y \in ChangedCells(content["calibrated"].rows, content["filtered"].rows) :
           x[2][1] = "wind_speed" /\ y[2][1] = "wind_direction"

\* ------------------------------------------------------------------------
\* Properties of the split stage
\* ------------------------------------------------------------------------

\* the split stage has computed and written its table in this run
SplitComputed ==
    /\ pc = "normalize"
    /\ Len(finished) > 0
    /\ finished[Len(finished)].stage = "split"
    /\ finished[Len(finished)].how = "computed"

\* C5: segmentation contiguity: in the table the split stage produced, which is in
\* time order, successive rows have increasing times and never a smaller group id,
\* and successive rows of one group are dt apart; so the timestamps of every group
\* step by dt, no timestamp is in two groups, and group ids increase with the
\* start time of the group.
C5_Contiguity ==
    SplitComputed =>
        LET out == df_query.rows
        IN  \A i \in 1..(Len(out) - 1) :
                /\ out[i][TimeCol] < out[i + 1][TimeCol]
                /\ out[i][GroupCol] <= out[i + 1][GroupCol]
                /\ out[i][GroupCol] = out[i + 1][GroupCol]
                       => out[i + 1][TimeCol] - out[i][TimeCol] = DT

\* C5 witness: a produced table with two groups, the second beginning more than dt
\* after the end of the first
C5_Witness ==
    /\ SplitComputed
    /\ \E i \in 1..(Len(df_query.rows) - 1) :
           /\ df_query.rows[i][GroupCol] = 0
           /\ df_query.rows[i + 1][GroupCol] = 1
           /\ df_query.rows[i + 1][TimeCol] - df_query.rows[i][TimeCol] > DT

\* whether time t lies in span p
InSpan(p, t) == t >= p.start_time /\ t <= p.end_time

\* C6: terminal state of segmentation: the produced table holds, in order, exactly
\* the input rows whose time lies in a surviving NOT_MISSING span; every such time
\* lies in one span only, and the row carries the index of that span, never -1.
C6_TerminalState ==
    SplitComputed =>
        LET in == content["imputed"].rows
            out == df_query.rows
            spans == SurvivingSpans(in)
            kept == SelectSeq(in, LAMBDA r : \E k \in 1..Len(spans) : InSpan(spans[k], r[TimeCol]))
        IN  /\ Len(out) = Len(kept)
            /\ \A i \in 1..Len(out) :
                   /\ DOMAIN out[i] = available_features \cup {GroupCol}
                   /\ \A c \in available_features : out[i][c] = kept[i][c]
                   /\ out[i][GroupCol] # 0 - 1
                   /\ {k \in 1..Len(spans) : InSpan(spans[k], out[i][TimeCol])}
                          = {out[i][GroupCol] + 1}

\* C6 witness: a produced table that lost rows of its input and kept, inside a
\* group, rows of a short stretch of missing data
C6_Witness ==
    /\ SplitComputed
    /\ Len(df_query.rows) > 0
    /\ Len(df_query.rows) < Len(content["imputed"].rows)
    /\ \E i \in 1..Len(df_query.rows) :
           \A t \in Turbines : df_query.rows[i][Col("wind_speed", t)] = Null

\* C7: when no NOT_MISSING span survives the minimum-duration filter the split
\* stage fails (the exception of line 651 taken as NoEligibleSpans) and writes no
\* split checkpoint; it never writes an empty split table.
C7_NoEligibleSpans ==
    (pc # "split" /\ SurvivingSpans(content["imputed"].rows) = <<>>)
        => /\ pc = "failed"
           /\ exc = "Exception"
           /\ "split" \notin exists
           /\ content["split"] = NoTable

\* the times and the continuity groups of the rows of a split table
OutTimes(out) == {out[j][TimeCol] : j \in 1..Len(out)}

GroupAt(out, t) == out[CHOOSE j \in 1..Len(out) : out[j][TimeCol] = t][GroupCol]

\* the times of the rows of a span
SpanTimes(rows, p) == {Time(rows, i) : i \in {k \in 1..Len(rows) : InSpan(p, Time(rows, k))}}

\* the continuity groups of the rows of a split table whose time satisfies Sel
GroupsWhere(out, Sel(_)) ==
    {out[j][GroupCol] : j \in {k \in 1..Len(out) : Sel(out[k][TimeCol])}}

\* C14: a timestamp is NOT_MISSING exactly when, for each of the families
\* wind_speed, wind_direction and nacelle_direction separately, the number of
\* turbines with a null is at most missing_col_thr, and MISSING otherwise; every
\* timestamp has exactly one of the two classes.
C14_Classification ==
    SplitComputed =>
        LET rows == content["imputed"].rows
        IN  \A i \in 1..Len(rows) :
                LET each == \A col \in missing_data_cols :
                                num_missing(rows[i], col) <= missing_col_thr
                IN  /\ (i \in NotMissingRows(rows)) <=> each
                    /\ (i \in MissingRows(rows)) <=> ~each

\* C15: a MISSING span of at most missing_duration_thr (600 s) goes with the
\* NOT_MISSING rows that touch it: where such a row is kept, the rows of the span
\* are kept in the same continuity group.  A longer MISSING span has no row in the
\* split table, and no continuity group has rows on both sides of it.
C15_ShortGapsTolerated ==
    SplitComputed =>
        LET rows == content["imputed"].rows
            out == df_query.rows
        IN  \A p \in ContinuitySpans(rows, MissingRows(rows), DT) :
                IF p.duration <= missing_duration_thr
                THEN \A i \in NotMissingRows(rows) :
                         (/\ Time(rows, i) \in {p.start_time - DT, p.end_time + DT}
                          /\ Time(rows, i) \in OutTimes(out))
                         => /\ SpanTimes(out, p) = SpanTimes(rows, p)
                            /\ GroupsWhere(out, LAMBDA t : InSpan(p, t))
                                   = {GroupAt(out, Time(rows, i))}
                ELSE /\ SpanTimes(out, p) = {}
                     /\ GroupsWhere(out, LAMBDA t : t < p.start_time)
                            \cap GroupsWhere(out, LAMBDA t : t > p.end_time) = {}

\* C15 witness: a MISSING span of exactly 600 s was kept in the group of the
\* NOT_MISSING rows before it
C15_Witness ==
    /\ SplitComputed
    /\ LET rows == content["imputed"].rows
           out == df_query.rows
       IN  \E p \in ContinuitySpans(rows, MissingRows(rows), DT) :
               /\ p.duration = missing_duration_thr
               /\ (p.start_time - DT) \in OutTimes(out)
               /\ SpanTimes(out, p) = SpanTimes(rows, p)
               /\ GroupAt(out, p.start_time) = GroupAt(out, p.start_time - DT)

\* the rows that are NOT_MISSING or lie in a MISSING span of at most
\* missing_duration_thr
TolerableRows(rows) ==
    NotMissingRows(rows)
    \cup UNION {{i \in 1..Len(rows) : InSpan(p, Time(rows, i))} :
                    p \in {m \in ContinuitySpans(rows, MissingRows(rows), DT) :
                               m.duration <= missing_duration_thr}}

\* C16: a merged span, i.e. a longest run of tolerable rows that follow one
\* another at dt, is dropped exactly when it lasts less than
\* minimum_not_missing_duration (1200 s): a run of 1200 s or more is kept whole, as
\* one continuity group, whatever the durations of the spans it was merged from.
C16_MinimumDuration ==
    SplitComputed =>
        LET rows == content["imputed"].rows
            out == df_query.rows
        IN  \A tolerable \in {TolerableRows(rows)} :
            \A q \in ContinuitySpans(rows, tolerable, DT) :
                IF q.duration < minimum_not_missing_duration
                THEN SpanTimes(out, q) = {}
                ELSE /\ SpanTimes(out, q) = SpanTimes(rows, q)
                     /\ Cardinality(GroupsWhere(out, LAMBDA t : InSpan(q, t))) = 1

\* C16 witness: a merged span of exactly 1200 s was kept although the NOT_MISSING
\* span and the MISSING span it was merged from are both shorter
C16_Witness ==
    /\ SplitComputed
    /\ LET rows == content["imputed"].rows
           out == df_query.rows
       IN  \E tolerable \in {TolerableRows(rows)} :
           \E q \in ContinuitySpans(rows, tolerable, DT) :
               /\ q.duration = minimum_not_missing_duration
               /\ SpanTimes(out, q) = SpanTimes(rows, q)
               /\ \E p \in ContinuitySpans(rows, MissingRows(rows), DT) :
                      InSpan(q, p.start_time) /\ InSpan(q, p.end_time)
               /\ \A p \in ContinuitySpans(rows, NotMissingRows(rows), DT) :
                      InSpan(q, p.start_time) => p.duration < minimum_not_missing_duration

\* ------------------------------------------------------------------------
\* Properties of the normalize stage
\* ------------------------------------------------------------------------

\* the normalize stage has computed and written its table in this run
NormalizeComputed ==
    /\ pc = "done"
    /\ Len(finished) > 0
    /\ finished[Len(finished)].stage = "normalize"
    /\ finished[Len(finished)].how = "computed"

\* the engineered feature columns
ScaledCols == EngineeredCols \ {TimeCol, GroupCol}

\* C8: after the normalize stage every non-null value of every engineered feature
\* column lies in [-1, 1].
C8_BoundedRange ==
    NormalizeComputed =>
        \A i \in 1..Len(df_query.rows) : \A c \in ScaledCols :
            LET y == df_query.rows[i][c]
            IN  y.num # Null => (y.den > 0 /\ 0 - y.den <= y.num /\ y.num <= y.den)

\* C9: when the stored max of a feature equals its stored min the normalize stage
\* raises DegenerateNormalization and writes no normalized table.
C9_DegenerateNormalization ==
    (\E f \in Range(feature_types) :
         norm_consts[f].max # Null /\ norm_consts[f].max = norm_consts[f].min)
        => /\ exc = "DegenerateNormalization"
           /\ pc = "failed"
           /\ "normalized" \notin exists

\* y is the exact fraction whose inverse transform (y + 1) / 2 * (hi - lo) + lo
\* is x
InverseRecovers(y, lo, hi, x) ==
    /\ y.den # 0
    /\ (y.num + y.den) * (hi - lo) = 2 * y.den * (x - lo)

\* C10: normalization round trip: with the stored constants of the feature type,
\* max > min, the inverse affine transform of every normalized value is the
\* engineered value it was computed from, in every turbine column of the type.
C10_RoundTrip ==
    NormalizeComputed =>
        LET eng == EngineeredRows(content["split"].rows)
        IN  \A i \in 1..Len(df_query.rows) : \A c \in ScaledCols :
                (eng[i][c] # Null /\ norm_consts[c[1]].max > norm_consts[c[1]].min)
                    => InverseRecovers(df_query.rows[i][c], norm_consts[c[1]].min,
                                       norm_consts[c[1]].max, eng[i][c])

\* C10 witness: a normalized table of a feature whose stored maximum is below its
\* true maximum, and whose two turbine columns have different extremes
C10_Witness ==
    /\ NormalizeComputed
    /\ LET eng == EngineeredRows(content["split"].rows)
           top(t) == SetMax({eng[i][Col("ws_horz", t)] : i \in 1..Len(eng)})
       IN  /\ \A i \in 1..Len(eng) : \A t \in Turbines : eng[i][Col("ws_horz", t)] # Null
           /\ norm_consts["ws_horz"].max > norm_consts["ws_horz"].min
           /\ norm_consts["ws_horz"].max < top(turbine_ids[1])
           /\ top(turbine_ids[2]) < top(turbine_ids[1])

\* C11: the final normalized table has exactly the columns time, continuity_group
\* and nd_sin, nd_cos, ws_horz, ws_vert of every turbine: no raw feature column and
\* no intermediate wd_sin or wd_cos column.
C11_FinalColumns ==
    NormalizeComputed =>
        \A i \in 1..Len(df_query.rows) :
            /\ DOMAIN df_query.rows[i]
                   = {<<"time", "">>, <<"continuity_group", "">>}
                         \cup ({"nd_sin", "nd_cos", "ws_horz", "ws_vert"} \X Turbines)
            /\ \A c \in DOMAIN df_query.rows[i] :
                   c[1] \notin RawFeatures \cup {"wd_sin", "wd_cos"}

\* C11 witness: a normalized table computed from a split table that holds the raw
\* feature columns
C11_Witness ==
    /\ NormalizeComputed
    /\ Len(df_query.rows) > 0
    /\ \A t \in Turbines :
           {Col("wind_speed", t), Col("power_output", t), Col("turbine_status", t)}
               \subseteq DOMAIN content["split"].rows[1]

\* ------------------------------------------------------------------------
\* Properties of the calibration stage
\* ------------------------------------------------------------------------

\* whether two angles are the same direction
SameDirection(a, b) == (a - b) % 360 = 0

\* a dataset that already has zero bias: in the 10-minute table the estimator
\* reads, every turbine has the farm median direction and the farm median yaw
\* wherever it operates, and it operates somewhere
ZeroBiasData(rows) ==
    LET tenmin == TenMinuteMeans(AddOffset(rows))
    IN  \A t \in Turbines :
            /\ Operating(tenmin, t) # {}
            /\ \A k \in Operating(tenmin, t) :
                   /\ tenmin[k][Col("wind_direction", t)] # Null
                   /\ tenmin[k][Col("nacelle_direction", t)] # Null
                   /\ SameDirection(tenmin[k][Col("wind_direction", t)],
                                    CircularMedian(tenmin[k], "wind_direction"))
                   /\ SameDirection(tenmin[k][Col("nacelle_direction", t)],
                                    CircularMedian(tenmin[k], "nacelle_direction"))

\* the mean Northing offset the stage adds to the offset table
NorthOf(est) == IF est.dir_offsets = <<>> THEN 0 ELSE MeanOffset(est.dir_offsets)

\* C12: idempotent calibration: the calibration stage computed on a dataset that
\* already has zero bias estimates a bias of zero for every turbine (the offset
\* table holds nothing but the mean Northing offset).
C12_IdempotentCalibration ==
    [][(pc = "calibration" /\ pc' = "filter" /\ ZeroBiasData(df_query.rows))
          => \A t \in Turbines : df_offsets'[t] = NorthOf(estimate)]_vars

\* C12 witness: the stage has estimated a bias of zero on a table where the
\* turbines operate and agree in every row, and whose directions differ between
\* rows
C12_Witness ==
    /\ pc = "filter"
    /\ estimate.dir_offsets = <<>>
    /\ \A t \in Turbines : df_offsets[t] = 0
    /\ \A i \in 1..Len(df_query.rows), t \in Turbines :
           /\ df_query.rows[i][Col("power_output", t)] >= 0
           /\ df_query.rows[i][Col("wind_direction", t)]
                  = df_query.rows[i][Col("wind_direction", turbine_ids[1])]
    /\ \E i, j \in 1..Len(df_query.rows) :
           df_query.rows[i][Col("wind_direction", turbine_ids[1])]
               # df_query.rows[j][Col("wind_direction", turbine_ids[1])]

\* C20: every value of the offset table lies in (-180, 180], after the bias
\* estimation and after the mean Northing offset has been added.
C20_OffsetRange ==
    \A t \in Turbines :
        df_offsets[t] # Null => (df_offsets[t] > 0 - 180 /\ df_offsets[t] <= 180)

\* the 10-minute rows of a table at which a turbine reports a power that is
\* neither null nor negative
PowerRows(tenmin, tid) ==
    {k \in 1..Len(tenmin) : LET p == tenmin[k][Col("power_output", tid)]
                            IN  p # Null /\ ~(p < 0)}

\* half the sum of the wrapped circular mean of wind_direction minus the farm
\* median direction and of nacelle_direction minus the farm median yaw of a
\* turbine, both over its rows in K
HalfOfMeans(tenmin, tid, K) ==
    RoundDiv(WrappedCircularMean(
                 [k \in K |-> tenmin[k][Col("wind_direction", tid)]
                                  - CircularMedian(tenmin[k], "wind_direction")], K)
             + WrappedCircularMean(
                 [k \in K |-> tenmin[k][Col("nacelle_direction", tid)]
                                  - CircularMedian(tenmin[k], "nacelle_direction")], K), 2)

\* C21: the bias the calibration stage records for a turbine is half the wrapped
\* circular mean of wind_direction minus the farm median direction plus half the
\* wrapped circular mean of nacelle_direction minus the farm median yaw, both
\* taken over the 10-minute timestamps at which the power_output of that turbine
\* is non-null and not negative; no other timestamp contributes.
C21_BiasFormula ==
    [][(pc = "calibration" /\ pc' = "filter")
          => \E tenmin \in {TenMinuteMeans(AddOffset(df_query.rows))} :
                 \A t \in Turbines :
                     df_offsets'[t]
                         = FinalNorthingBias(HalfOfMeans(tenmin, t, PowerRows(tenmin, t)),
                                             NorthOf(estimate))]_vars

\* C21 witness: the stage has recorded a nonzero bias for a turbine that reported
\* a null power in one 10-minute window and a positive power in another
C21_Witness ==
    /\ pc = "filter"
    /\ estimate.dir_offsets = <<>>
    /\ \E t \in Turbines :
           /\ df_offsets[t] # 0
           /\ \E i, j \in 1..Len(df_query.rows) :
                  /\ df_query.rows[i][Col("power_output", t)] = Null
                  /\ df_query.rows[j][Col("power_output", t)] > 0

\* an angle of [0, 360), or null
InCircle(a) == a = Null \/ (a >= 0 /\ a < 360)

Misalignment(row, tid) ==
    (row[Col("wind_direction", tid)] - row[Col("nacelle_direction", tid)]) % 360

C26_OrderIndependent ==
    [][(pc = "calibration" /\ pc' = "filter")
          => \A order \in TurbineOrders :
                 \E run \in {CalibrationRun(df_query.rows, order)} :
                     /\ OffsetTable(run.bias, estimate) = df_offsets'
                     /\ df_query'.rows
                            = IF estimate.dir_offsets # <<>>
                              THEN ApplyNorthing(run.rows, MeanOffset(estimate.dir_offsets), 1)
                              ELSE run.rows]_vars

\* C26 witness: the stage has estimated two different nonzero biases from a
\* table without a Northing correction
C26_Witness ==
    /\ pc = "filter"
    /\ estimate.dir_offsets = <<>>
    /\ \A t \in Turbines : df_offsets[t] # 0
    /\ \E t, u \in Turbines : df_offsets[t] # df_offsets[u]

====
